---- MODULE Spec2Model ----
(***************************************************************************)
(* A model of CodeIntelligenceAnalyzer (src/intelligence_analyzer.py):     *)
(* the call-graph builder and orphan detector, the complexity              *)
(* orchestration, the pattern extractor with its frequency filter and      *)
(* anti-pattern rules, and the analyze_codebase_from_files entry point.    *)
(*                                                                         *)
(* A source file is a pair (path, content).  Its content is modelled by    *)
(* what ast.parse makes of it: either a SyntaxError (parseable = FALSE) or *)
(* a syntax tree.  A tree is a sequence of nodes; node i names its parent  *)
(* (0 is the Module node) and the children of a node are the nodes naming  *)
(* it, in index order, as ast.iter_child_nodes yields them.                *)
(***************************************************************************)
EXTENDS Integers, Sequences, FiniteSets, TLC

(***************************************************************************)
(* Syntax trees                                                            *)
(***************************************************************************)

\* kind: the ast class; name: the definition's name, or the called
\* identifier of a Call; fn: the class of a Call's func field.
\* chars: for a function, the length of its source text without the
\* surrounding whitespace, len(ast.get_source_segment(content, node).strip())
Node(kind, name, fn, parent, lineno) ==
    [kind |-> kind, name |-> name, fn |-> fn, parent |-> parent, lineno |-> lineno,
     chars |-> 0]

\* a function with a source text of n characters
FunctionDefOfSize(name, parent, lineno, n) ==
    [Node("FunctionDef", name, "", parent, lineno) EXCEPT !.chars = n]

\* "def f(): pass" and the like are short; the functions of the modelled
\* files have 40 characters unless said otherwise
FunctionDef(name, parent, lineno) == FunctionDefOfSize(name, parent, lineno, 40)
ClassDef(name, parent, lineno) == Node("ClassDef", name, "", parent, lineno)
\* name(...)
CallName(name, parent, lineno) == Node("Call", name, "Name", parent, lineno)
\* obj.name(...)
CallAttr(name, parent, lineno) == Node("Call", name, "Attribute", parent, lineno)
\* If, For, While, Try, With, Return, Raise, and Expr for any other statement
Stmt(kind, parent, lineno) == Node(kind, "", "", parent, lineno)

\* newlines: content.count("\n")
SourceFile(path, parseable, newlines, tree) ==
    [path |-> path, parseable |-> parseable, newlines |-> newlines, tree |-> tree]

\* the children of node i (0: of the Module), in source order
Children(tree, i) ==
    SelectSeq([j \in 1..Len(tree) |-> j], LAMBDA j : tree[j].parent = i)

\* A loop over a long list is unfolded by halves, the first half before the
\* second, which keeps the order of the loop and the nesting shallow; where
\* the loop threads a value through, "CHOOSE done \in {f(half) : half \in {e}}"
\* is f(e) with e evaluated first.
FrontHalf(s) == SubSeq(s, 1, Len(s) \div 2)

BackHalf(s) == SubSeq(s, Len(s) \div 2 + 1, Len(s))

PositionIn(s, x) == CHOOSE k \in 1..Len(s) : s[k] = x

\* the children of the nodes of one level: those of the first node first,
\* each node's own in source order
ChildrenOfLevel(tree, level) ==
    SortSeq(SelectSeq([j \in 1..Len(tree) |-> j],
                      LAMBDA j : \E k \in 1..Len(level) : level[k] = tree[j].parent),
            LAMBDA a, b :
                \/ PositionIn(level, tree[a].parent) < PositionIn(level, tree[b].parent)
                \/ tree[a].parent = tree[b].parent /\ a < b)

\* ast.walk: a queue of nodes, each node's children appended to the end of
\* the queue as the node is taken from its front; so the nodes come out
\* breadth first, a whole level before the next one
RECURSIVE WalkQueue(_, _)
WalkQueue(tree, todo) ==
    IF todo = <<>> THEN <<>>
    ELSE todo \o WalkQueue(tree, ChildrenOfLevel(tree, todo))

\* the nodes below and including kids in pre-order: each node, then its
\* subtree, then its later siblings
RECURSIVE DepthFirst(_, _)
DepthFirst(tree, kids) ==
    IF kids = <<>> THEN <<>>
    ELSE <<Head(kids)>> \o DepthFirst(tree, Children(tree, Head(kids)))
            \o DepthFirst(tree, Tail(kids))

\* a walk that yields the nodes in pre-order
WalkDepthFirst(tree, root) ==
    IF root = 0 THEN DepthFirst(tree, Children(tree, 0)) ELSE DepthFirst(tree, <<root>>)

\* ast.walk(node): the node itself first; the Module (0) is no node of the tree
Walk(tree, root) ==
    IF root = 0 THEN WalkQueue(tree, Children(tree, 0)) ELSE WalkQueue(tree, <<root>>)

\* str.startswith
StartsWith(s, prefix) ==
    Len(s) >= Len(prefix) /\ SubSeq(s, 1, Len(prefix)) = prefix

\* str.endswith
EndsWith(s, suffix) ==
    Len(s) >= Len(suffix) /\ SubSeq(s, Len(s) - Len(suffix) + 1, Len(s)) = suffix

\* list[:n]
Take(s, n) == SubSeq(s, 1, IF Len(s) < n THEN Len(s) ELSE n)

\* x in s, for lists
InSeq(x, s) == \E i \in 1..Len(s) : s[i] = x

\* list.count(x)
Count(s, x) == Cardinality({i \in 1..Len(s) : s[i] = x})

\* sum(s)
RECURSIVE SumSeq(_)
SumSeq(s) ==
    IF s = <<>> THEN 0
    ELSE IF Len(s) = 1 THEN s[1]
    ELSE SumSeq(FrontHalf(s)) + SumSeq(BackHalf(s))

(***************************************************************************)
(* Optional capabilities and Python values                                 *)
(***************************************************************************)

\* Python's None, where a field holds either None or a string
None == "None"

\* the fixed texts of the structured errors
RadonError ==
    [error |-> "radon library not installed",
     message |-> "Please install: pip install radon"]

NetworkxError ==
    [error |-> "networkx library not installed",
     message |-> "Please install: pip install networkx"]

TransformersError ==
    [error |-> "Transformers library not available",
     message |-> "Please install: pip install transformers torch scikit-learn"]

\* results[kind] = None
NoResult == [none |-> TRUE]

IsErrorRecord(r) == DOMAIN r = {"error", "message"}

(***************************************************************************)
(* The graph backend: networkx.DiGraph.  Nodes are kept in insertion order *)
(* with their attributes, edges are a set of (caller, callee) pairs.       *)
(* present = FALSE is self.graph = None.                                   *)
(***************************************************************************)

NoGraph == [present |-> FALSE, nodes |-> <<>>, edges |-> {}]

DiGraph == [present |-> TRUE, nodes |-> <<>>, edges |-> {}]

\* bool(self.graph): None is falsy, and a DiGraph defines __len__ as its
\* number of nodes and no __bool__, so it is truthy iff it has a node
GraphTruthy(g) == g.present /\ Len(g.nodes) > 0

NodeNames(g) == {g.nodes[i].full_name : i \in 1..Len(g.nodes)}

NodeRecord(full_name, type, file, line, name) ==
    [full_name |-> full_name, type |-> type, file |-> file, line |-> line, name |-> name]

\* graph.add_node(full_name, **attrs): a new node is appended, a known
\* node keeps its place and takes the new attributes
AddNode(g, rec) ==
    IF rec.full_name \in NodeNames(g)
    THEN [g EXCEPT !.nodes = [i \in 1..Len(g.nodes) |->
                IF g.nodes[i].full_name = rec.full_name THEN rec ELSE g.nodes[i]]]
    ELSE [g EXCEPT !.nodes = Append(g.nodes, rec)]

\* a node that add_edge creates has no attributes: node_data.get gives
\* the defaults "", "" and 0
BareNode(full_name) == NodeRecord(full_name, "", "", 0, "")

EnsureNode(g, full_name) ==
    IF full_name \in NodeNames(g) THEN g
    ELSE [g EXCEPT !.nodes = Append(g.nodes, BareNode(full_name))]

\* graph.add_edge(u, v, type="calls"): adds missing end points, then the edge
AddEdge(g, u, v) ==
    [EnsureNode(EnsureNode(g, u), v) EXCEPT !.edges = @ \cup {<<u, v>>}]

InDegree(g, n) == Cardinality({e \in g.edges : e[2] = n})

OutDegree(g, n) == Cardinality({e \in g.edges : e[1] = n})

(***************************************************************************)
(* Call graph builder: _analyze_file_calls                                 *)
(***************************************************************************)

\* f"{filepath}::{node.name}"
FullName(filepath, name) == filepath \o "::" \o name

DefinitionRecord(full_name, file, line, type, name) ==
    [full_name |-> full_name, file |-> file, line |-> line, type |-> type, name |-> name]

DefinitionKeys(definitions) ==
    {definitions[i].full_name : i \in 1..Len(definitions)}

\* self.definitions[full_name] = {...}: the registry is a dict, which
\* iterates in the order its keys were first inserted; assigning to a
\* known key replaces the value and keeps the key's place
PutDefinition(definitions, rec) ==
    IF rec.full_name \in DefinitionKeys(definitions)
    THEN [i \in 1..Len(definitions) |->
            IF definitions[i].full_name = rec.full_name THEN rec ELSE definitions[i]]
    ELSE Append(definitions, rec)

DefinitionType(node) == IF node.kind = "FunctionDef" THEN "function" ELSE "class"

\* one step of the definition loop: the body of "for node in ast.walk(tree)"
\* st = [definitions, all_names, graph]
RegisterDefinition(st, filepath, node) ==
    IF node.kind \in {"FunctionDef", "ClassDef"}
    THEN LET full_name == FullName(filepath, node.name)
             type == DefinitionType(node)
         IN [definitions |-> PutDefinition(st.definitions,
                 DefinitionRecord(full_name, filepath, node.lineno, type, node.name)),
             all_names |-> st.all_names \cup {node.name},
             graph |-> IF GraphTruthy(st.graph)
                       THEN AddNode(st.graph,
                                NodeRecord(full_name, type, filepath, node.lineno, node.name))
                       ELSE st.graph]
    ELSE st

\* for node in ast.walk(tree), over the nodes in the order of the walk
RECURSIVE ExtractDefinitions(_, _, _, _)
ExtractDefinitions(st, filepath, tree, order) ==
    IF order = <<>> THEN st
    ELSE IF Len(order) = 1 THEN RegisterDefinition(st, filepath, tree[order[1]])
    ELSE CHOOSE done \in
            {ExtractDefinitions(half, filepath, tree, BackHalf(order)) :
                half \in {ExtractDefinitions(st, filepath, tree, FrontHalf(order))}} : TRUE

\* the first definition, in registry iteration order, whose local name is
\* called_name: the for loop with its break (0: the loop ends without a match)
FirstDefinitionNamed(definitions, called_name) ==
    LET matches == {i \in 1..Len(definitions) : definitions[i].name = called_name}
    IN IF matches = {} THEN 0
       ELSE CHOOSE i \in matches : \A j \in matches : i <= j

\* node.func.id for a Name, node.func.attr for an Attribute, else None
CalledName(node) ==
    IF node.fn \in {"Name", "Attribute"} THEN node.name ELSE None

\* visit_Call without the test of line 291: every call site is resolved
CallEdgeAnywhere(v, st, node) ==
    LET called_name == CalledName(node)
    IN IF called_name # None /\ called_name # "" /\ called_name \in st.all_names
       THEN LET d == FirstDefinitionNamed(st.definitions, called_name)
            IN IF d = 0 THEN v
               ELSE [v EXCEPT !.graph =
                       AddEdge(v.graph, v.current_function, st.definitions[d].full_name)]
       ELSE v

\* visit_Call testing current_function alone, on a graph of any size
CallEdgeOnAnyGraph(v, st, node) ==
    IF v.current_function # None THEN CallEdgeAnywhere(v, st, node) ELSE v

\* CallVisitor.visit_Call, before its generic_visit
\* v = [graph, current_function], the visitor's view of the analyzer
CallEdge(v, st, node) ==
    IF v.current_function # None /\ GraphTruthy(v.graph)
    THEN LET called_name == CalledName(node)
         IN IF called_name # None /\ called_name # "" /\ called_name \in st.all_names
            THEN LET d == FirstDefinitionNamed(st.definitions, called_name)
                 IN IF d = 0 THEN v
                    ELSE [v EXCEPT !.graph =
                            AddEdge(v.graph, v.current_function, st.definitions[d].full_name)]
            ELSE v
    ELSE v

\* CallVisitor(self, filepath): the visitor works on the analyzer's graph
NewCallVisitor(g) == [graph |-> g, current_function |-> None, calls |-> <<>>]

\* visit_Call entered for node i: the visitor, with the call and the
\* value current_function has at this moment noted in calls (a record of
\* the traversal; the visitor object itself keeps no such list)
EnterCall(v, i) ==
    [v EXCEPT !.calls = Append(@, [node |-> i, current_function |-> v.current_function])]

\* the traversal with a visit_FunctionDef that sets current_function and
\* does not put the old value back
RECURSIVE VisitCallsWithoutRestore(_, _, _, _, _)
VisitCallsWithoutRestore(v, st, filepath, tree, kids) ==
    IF kids = <<>> THEN v
    ELSE IF Len(kids) = 1
    THEN LET i == kids[1]
             node == tree[i]
         IN IF node.kind = "FunctionDef"
            THEN VisitCallsWithoutRestore(
                    [v EXCEPT !.current_function = FullName(filepath, node.name)],
                    st, filepath, tree, Children(tree, i))
            ELSE IF node.kind = "Call"
            THEN VisitCallsWithoutRestore(CallEdge(EnterCall(v, i), st, node),
                                          st, filepath, tree, Children(tree, i))
            ELSE VisitCallsWithoutRestore(v, st, filepath, tree, Children(tree, i))
    ELSE CHOOSE done \in
            {VisitCallsWithoutRestore(half, st, filepath, tree, BackHalf(kids)) :
                half \in {VisitCallsWithoutRestore(v, st, filepath, tree,
                                                   FrontHalf(kids))}} : TRUE

\* NodeVisitor.visit(node) of CallVisitor and its generic_visit over the
\* children (kids); visit_FunctionDef saves, sets and restores
\* current_function around the traversal of the function
RECURSIVE VisitCalls(_, _, _, _, _)
VisitCalls(v, st, filepath, tree, kids) ==
    IF kids = <<>> THEN v
    ELSE IF Len(kids) = 1
    THEN LET i == kids[1]
             node == tree[i]
         IN IF node.kind = "FunctionDef"
            THEN LET old_func == v.current_function
                 IN [VisitCalls(
                        [v EXCEPT !.current_function = FullName(filepath, node.name)],
                        st, filepath, tree, Children(tree, i))
                     EXCEPT !.current_function = old_func]
            ELSE IF node.kind = "Call"
            THEN VisitCalls(CallEdge(EnterCall(v, i), st, node),
                            st, filepath, tree, Children(tree, i))
            ELSE VisitCalls(v, st, filepath, tree, Children(tree, i))
    ELSE CHOOSE done \in
            {VisitCalls(half, st, filepath, tree, BackHalf(kids)) :
                half \in {VisitCalls(v, st, filepath, tree, FrontHalf(kids))}} : TRUE

\* _analyze_file_calls(filepath, content)
AnalyzeFileCalls(st, file) ==
    IF ~file.parseable THEN st
    ELSE LET defs == ExtractDefinitions(st, file.path, file.tree, Walk(file.tree, 0))
             v == VisitCalls(NewCallVisitor(defs.graph),
                             defs, file.path, file.tree, Children(file.tree, 0))
         IN [defs EXCEPT !.graph = v.graph]

RECURSIVE BuildCallGraph(_, _)
BuildCallGraph(st, files_data) ==
    IF files_data = <<>> THEN st
    ELSE BuildCallGraph(AnalyzeFileCalls(st, Head(files_data)), Tail(files_data))

(***************************************************************************)
(* Orphan detector: _analyze_orphan_code                                   *)
(***************************************************************************)

\* orphan_functions[:50] and orphan_classes[:50]
OrphanLimit == 50

\* entry_points[:20]
EntryPointLimit == 20

\* round(x, 2) of x = num / den * 100, in hundredths; a tie goes to the
\* even neighbour
RoundPercent(num, den) ==
    LET q == (num * 10000) \div den
        r == (num * 10000) % den
    IN IF 2 * r < den THEN q
       ELSE IF 2 * r > den THEN q + 1
       ELSE IF q % 2 = 0 THEN q ELSE q + 1

Max(a, b) == IF a >= b THEN a ELSE b

NodeInfo(g, n) ==
    [name |-> n.name, full_name |-> n.full_name, file |-> n.file, line |-> n.line,
     type |-> n.type, called_by |-> InDegree(g, n.full_name)]

\* node_name.startswith("__") or node_name == "main"
IsSpecial(node_name) == StartsWith(node_name, "__") \/ node_name = "main"

IsOrphanOfType(g, n, type) ==
    InDegree(g, n.full_name) = 0 /\ ~IsSpecial(n.name) /\ n.type = type

IsEntryPoint(g, n) ==
    InDegree(g, n.full_name) = 0 /\ OutDegree(g, n.full_name) > 0

\* the three lists as the loop over graph.nodes() fills them
OrphansOfType(g, type) ==
    LET picked == SelectSeq(g.nodes, LAMBDA n : IsOrphanOfType(g, n, type))
    IN [i \in 1..Len(picked) |-> NodeInfo(g, picked[i])]

EntryPoints(g) ==
    LET picked == SelectSeq(g.nodes, LAMBDA n : IsEntryPoint(g, n))
    IN [i \in 1..Len(picked) |-> NodeInfo(g, picked[i])]

\* the dictionary _analyze_orphan_code returns once the graph is built
OrphanResult(g) ==
    LET orphan_functions == OrphansOfType(g, "function")
        orphan_classes == OrphansOfType(g, "class")
        entry_points == EntryPoints(g)
        total == Len(g.nodes)
        orphans == Len(orphan_functions) + Len(orphan_classes)
    IN [orphan_functions |-> Take(orphan_functions, OrphanLimit),
        orphan_classes |-> Take(orphan_classes, OrphanLimit),
        entry_points |-> Take(entry_points, EntryPointLimit),
        summary |-> [total_definitions |-> total,
                     total_orphans |-> orphans,
                     orphan_percentage |-> RoundPercent(orphans, Max(total, 1))]]

\* _analyze_orphan_code(files_data) on the analyzer fields st;
\* the new fields and the returned dictionary
AnalyzeOrphanCode(st, files_data, networkx) ==
    IF ~networkx THEN [st |-> st, result |-> NetworkxError]
    ELSE LET built == BuildCallGraph(st, files_data)
         IN [st |-> built, result |-> OrphanResult(built.graph)]

(***************************************************************************)
(* Pattern extractor: _extract_patterns and its PatternVisitor             *)
(***************************************************************************)

\* the isinstance chain of PatternVisitor.visit_FunctionDef: the tokens
\* (none or one) that one node of the walk appends
TokensOf(node) ==
    IF node.kind = "For" THEN <<"FOR_LOOP">>
    ELSE IF node.kind = "While" THEN <<"WHILE_LOOP">>
    ELSE IF node.kind = "If" THEN <<"CONDITIONAL">>
    ELSE IF node.kind = "Try" THEN <<"TRY_EXCEPT">>
    ELSE IF node.kind = "With" THEN <<"CONTEXT_MANAGER">>
    ELSE IF node.kind = "Return" THEN <<"RETURN">>
    ELSE IF node.kind = "Raise" THEN <<"RAISE">>
    ELSE IF node.kind = "Call" /\ node.fn = "Name" THEN <<"CALL:" \o node.name>>
    ELSE <<>>

\* the tokens appended along a walk, in the order of the walk
TokensAlong(tree, order) ==
    LET matched == SelectSeq(order, LAMBDA j : TokensOf(tree[j]) # <<>>)
    IN [k \in 1..Len(matched) |-> TokensOf(tree[matched[k]])[1]]

\* the token sequence of the function at node i: for child in ast.walk(node)
FunctionTokens(tree, i) == TokensAlong(tree, Walk(tree, i))

FunctionPattern(filepath, node, pattern) ==
    [type |-> "function_structure", name |-> node.name, file |-> filepath,
     line |-> node.lineno, pattern |-> pattern]

\* [n.name for n in node.body if isinstance(n, ast.FunctionDef)]
MethodNames(tree, i) ==
    LET kids == SelectSeq(Children(tree, i), LAMBDA j : tree[j].kind = "FunctionDef")
    IN [k \in 1..Len(kids) |-> tree[kids[k]].name]

ClassPattern(filepath, node, methods) ==
    [type |-> "class_structure", name |-> node.name, file |-> filepath,
     line |-> node.lineno, method_count |-> Len(methods),
     has_init |-> InSeq("__init__", methods), methods |-> methods]

\* PatternVisitor.visit over the children kids: a function or a class
\* appends its record and then generic_visit descends into it
RECURSIVE VisitPatterns(_, _, _)
VisitPatterns(filepath, tree, kids) ==
    IF kids = <<>> THEN <<>>
    ELSE IF Len(kids) = 1
    THEN LET i == kids[1]
             node == tree[i]
             own == IF node.kind = "FunctionDef"
                    THEN <<FunctionPattern(filepath, node, FunctionTokens(tree, i))>>
                    ELSE IF node.kind = "ClassDef"
                    THEN <<ClassPattern(filepath, node, MethodNames(tree, i))>>
                    ELSE <<>>
         IN own \o VisitPatterns(filepath, tree, Children(tree, i))
    ELSE VisitPatterns(filepath, tree, FrontHalf(kids))
            \o VisitPatterns(filepath, tree, BackHalf(kids))

\* _extract_patterns(filepath, tree)
ExtractPatterns(filepath, tree) == VisitPatterns(filepath, tree, Children(tree, 0))

RECURSIVE CollectPatterns(_, _)
RECURSIVE CollectPatternsUntilError(_, _)

\* the loop with one try around it: the first file that does not parse
\* ends the extraction
CollectPatternsUntilError(all_patterns, files_data) ==
    IF files_data = <<>> THEN all_patterns
    ELSE LET file == Head(files_data)
         IN IF file.parseable
            THEN CollectPatternsUntilError(
                    all_patterns \o ExtractPatterns(file.path, file.tree),
                    Tail(files_data))
            ELSE all_patterns

\* the first loop of _analyze_patterns: a SyntaxError skips the file
CollectPatterns(all_patterns, files_data) ==
    IF files_data = <<>> THEN all_patterns
    ELSE LET file == Head(files_data)
         IN CollectPatterns(
                IF file.parseable
                THEN all_patterns \o ExtractPatterns(file.path, file.tree)
                ELSE all_patterns,
                Tail(files_data))

(***************************************************************************)
(* Frequency filter, classification and anti-pattern rules                 *)
(***************************************************************************)

\* common_patterns keeps meaningful_patterns[:20]
TopPatternLimit == 20

\* x in s, for strings
Contains(s, x) ==
    \E i \in 1..(Len(s) - Len(x) + 1) : SubSeq(s, i, i + Len(x) - 1) = x

UpperCase == "ABCDEFGHIJKLMNOPQRSTUVWXYZ"

LowerCase == "abcdefghijklmnopqrstuvwxyz"

LowerChar(c) ==
    IF \E k \in 1..26 : SubSeq(UpperCase, k, k) = c
    THEN LET k == CHOOSE k \in 1..26 : SubSeq(UpperCase, k, k) = c
         IN SubSeq(LowerCase, k, k)
    ELSE c

\* str.lower
RECURSIVE Lower(_)
Lower(s) ==
    IF Len(s) = 0 THEN ""
    ELSE LowerChar(SubSeq(s, 1, 1)) \o Lower(SubSeq(s, 2, Len(s)))

\* a counter that notes each distinct sequence once and does not count
\* its later occurrences
CountFirstOccurrences(sequences) ==
    LET first == SelectSeq([i \in 1..Len(sequences) |-> i],
                    LAMBDA i : \A j \in 1..(i - 1) : sequences[j] # sequences[i])
    IN [k \in 1..Len(first) |-> [pattern |-> sequences[first[k]], count |-> 1]]

\* Counter(pattern_sequences): the distinct sequences in first-seen order,
\* each with its number of occurrences
CountPatterns(sequences) ==
    LET first == SelectSeq([i \in 1..Len(sequences) |-> i],
                    LAMBDA i : \A j \in 1..(i - 1) : sequences[j] # sequences[i])
    IN [k \in 1..Len(first) |->
          [pattern |-> sequences[first[k]], count |-> Count(sequences, sequences[first[k]])]]

\* the denylist of _is_meaningful_pattern
GenericPatterns == {<<"RETURN">>, <<"CONDITIONAL">>, <<>>, <<"CALL:super">>}

\* _is_meaningful_pattern(pattern, count, total); count / total < 0.005
\* is decided exactly as 200 * count < total: a quotient of two small
\* integers is never closer to 1/200 than a double can tell apart
\* the filter with the 0.5% threshold exclusive
IsMeaningfulPatternAbove(pattern, count, total) ==
    IF Len(pattern) <= 1 THEN FALSE
    ELSE IF total > 0 /\ 200 * count <= total THEN FALSE
    ELSE IF pattern \in GenericPatterns THEN FALSE
    ELSE TRUE

IsMeaningfulPattern(pattern, count, total) ==
    IF Len(pattern) <= 1 THEN FALSE
    ELSE IF total > 0 /\ 200 * count < total THEN FALSE
    ELSE IF pattern \in GenericPatterns THEN FALSE
    ELSE TRUE

\* an entry placed ahead of the entries of its own count
InsertAheadOfEqualCount(sorted, e) ==
    LET ahead == SelectSeq(sorted, LAMBDA x : x.count > e.count)
        behind == SelectSeq(sorted, LAMBDA x : x.count <= e.count)
    IN ahead \o <<e>> \o behind

\* list.sort(key=lambda x: x[1], reverse=True): stable, so entries of equal
\* count keep their order; one entry is placed behind all entries of at
\* least its count
InsertByCount(sorted, e) ==
    LET ahead == SelectSeq(sorted, LAMBDA x : x.count >= e.count)
        behind == SelectSeq(sorted, LAMBDA x : x.count < e.count)
    IN ahead \o <<e>> \o behind

RECURSIVE SortByCount(_, _)
SortByCount(sorted, entries) ==
    IF entries = <<>> THEN sorted
    ELSE SortByCount(InsertByCount(sorted, Head(entries)), Tail(entries))

\* _classify_pattern(pattern)
\* the classification with the test for try statements ahead of the tests
\* for calls
ClassifyPatternTriesFirst(pattern) ==
    IF Count(pattern, "TRY_EXCEPT") >= 2 THEN "Defensive Programming"
    ELSE IF \E i \in 1..Len(pattern) :
          StartsWith(pattern[i], "CALL:") /\ Contains(Lower(pattern[i]), "download")
    THEN "Web Scraping"
    ELSE IF \E i \in 1..Len(pattern) :
          StartsWith(pattern[i], "CALL:") /\ Contains(Lower(pattern[i]), "regex")
    THEN "Regex Extraction"
    ELSE IF Count(pattern, "CONDITIONAL") > 10 THEN "High Complexity"
    ELSE IF Count(pattern, "FOR_LOOP") + Count(pattern, "WHILE_LOOP") > 3
    THEN "Loop-Heavy Processing"
    ELSE "Standard Logic"

ClassifyPattern(pattern) ==
    IF \E i \in 1..Len(pattern) :
          StartsWith(pattern[i], "CALL:") /\ Contains(Lower(pattern[i]), "download")
    THEN "Web Scraping"
    ELSE IF \E i \in 1..Len(pattern) :
          StartsWith(pattern[i], "CALL:") /\ Contains(Lower(pattern[i]), "regex")
    THEN "Regex Extraction"
    ELSE IF Count(pattern, "TRY_EXCEPT") >= 2 THEN "Defensive Programming"
    ELSE IF Count(pattern, "CONDITIONAL") > 10 THEN "High Complexity"
    ELSE IF Count(pattern, "FOR_LOOP") + Count(pattern, "WHILE_LOOP") > 3
    THEN "Loop-Heavy Processing"
    ELSE "Standard Logic"

AntiPattern(type, info, severity, details) ==
    [type |-> type, file |-> info.file, line |-> info.line, function |-> info.name,
     severity |-> severity, details |-> details]

\* pattern.count("CONDITIONAL") > 5
\* the rule firing from 5 conditionals on
HighComplexityRuleFromFive(pattern) == Count(pattern, "CONDITIONAL") >= 5

HighComplexityRule(pattern) == Count(pattern, "CONDITIONAL") > 5

\* the rule looking for a return alone
MissingReturnRuleWithoutCalls(pattern) == ~InSeq("RETURN", pattern)

MissingReturnRule(pattern) ==
    ~InSeq("RETURN", pattern)
    /\ ~\E i \in 1..Len(pattern) : StartsWith(pattern[i], "CALL:")

\* the rule firing from 2 loops on
NestedLoopsRuleFromTwo(pattern) ==
    Count(pattern, "FOR_LOOP") + Count(pattern, "WHILE_LOOP") >= 2

NestedLoopsRule(pattern) ==
    Count(pattern, "FOR_LOOP") + Count(pattern, "WHILE_LOOP") > 2

\* the findings of one function, in the order the three rules are tried
FunctionAntiPatterns(info) ==
    (IF HighComplexityRule(info.pattern)
     THEN <<AntiPattern("HIGH_COMPLEXITY", info, "HIGH",
                "Function has " \o ToString(Count(info.pattern, "CONDITIONAL"))
                    \o " conditionals.")>>
     ELSE <<>>)
    \o (IF MissingReturnRule(info.pattern)
        THEN <<AntiPattern("MISSING_RETURN", info, "LOW",
                   "Function has no explicit return statement.")>>
        ELSE <<>>)
    \o (IF NestedLoopsRule(info.pattern)
        THEN <<AntiPattern("NESTED_LOOPS", info, "MEDIUM",
                   "Potential nested loops detected.")>>
        ELSE <<>>)

\* _detect_anti_patterns(func_patterns, files_data)
RECURSIVE DetectAntiPatterns(_)
DetectAntiPatterns(func_patterns) ==
    IF func_patterns = <<>> THEN <<>>
    ELSE IF Len(func_patterns) = 1 THEN FunctionAntiPatterns(func_patterns[1])
    ELSE DetectAntiPatterns(FrontHalf(func_patterns))
            \o DetectAntiPatterns(BackHalf(func_patterns))

(***************************************************************************)
(* _analyze_patterns                                                       *)
(***************************************************************************)

RECURSIVE Gcd(_, _)
Gcd(a, b) == IF b = 0 THEN a ELSE Gcd(b, a % b)

\* the float num / den, kept exact as a reduced fraction; 0 is 0/1
Quotient(num, den) ==
    IF num = 0 THEN [num |-> 0, den |-> 1]
    ELSE [num |-> num \div Gcd(num, den), den |-> den \div Gcd(num, den)]

\* round(num / den, 2) in hundredths
RoundHundredths(num, den) == RoundPercent(num, den * 100)

CommonPattern(entry, total_functions) ==
    [pattern |-> entry.pattern, count |-> entry.count,
     percentage |-> RoundPercent(entry.count, total_functions),
     classification |-> ClassifyPattern(entry.pattern)]

FunctionPatterns(all_patterns) ==
    SelectSeq(all_patterns, LAMBDA p : p.type = "function_structure")

ClassPatterns(all_patterns) ==
    SelectSeq(all_patterns, LAMBDA p : p.type = "class_structure")

\* pattern_counts: Counter(tuple(p["pattern"]) for p in func_patterns)
PatternCounts(func_patterns) ==
    CountPatterns([i \in DOMAIN func_patterns |-> func_patterns[i].pattern])

\* meaningful_patterns, filtered and then sorted
MeaningfulPatterns(pattern_counts, total) ==
    SortByCount(<<>>, SelectSeq(pattern_counts,
        LAMBDA e : IsMeaningfulPattern(e.pattern, e.count, total)))

\* top_patterns = meaningful_patterns[:20]
TopPatterns(pattern_counts, total) ==
    Take(MeaningfulPatterns(pattern_counts, total), TopPatternLimit)

\* the dictionary _analyze_patterns returns
PatternReport(all_patterns, func_patterns, class_patterns, pattern_counts, top_patterns) ==
    [common_patterns |->
        [i \in DOMAIN top_patterns |-> CommonPattern(top_patterns[i], Len(func_patterns))],
     rare_patterns |-> Len(SelectSeq(pattern_counts, LAMBDA e : e.count = 1)),
     anti_patterns |-> DetectAntiPatterns(func_patterns),
     total_patterns |-> Len(all_patterns),
     total_functions |-> Len(func_patterns),
     total_classes |-> Len(class_patterns),
     class_stats |->
        [avg_methods |->
            IF class_patterns # <<>>
            THEN Quotient(
                    SumSeq([i \in DOMAIN class_patterns |-> class_patterns[i].method_count]),
                    Max(Len(class_patterns), 1))
            ELSE Quotient(0, 1),
         with_init |-> Len(SelectSeq(class_patterns, LAMBDA p : p.has_init))]]

\* what _analyze_patterns computes from self.all_patterns after the
\* extraction loop
PatternResult(all_patterns) ==
    CHOOSE r \in
        {PatternReport(all_patterns, func_patterns, class_patterns, pattern_counts,
            TopPatterns(pattern_counts, Len(func_patterns))) :
            func_patterns \in {FunctionPatterns(all_patterns)},
            class_patterns \in {ClassPatterns(all_patterns)},
            pattern_counts \in {PatternCounts(FunctionPatterns(all_patterns))}} : TRUE

\* _analyze_patterns(files_data) on self.all_patterns
AnalyzePatterns(all_patterns, files_data) ==
    LET collected == CollectPatterns(all_patterns, files_data)
    IN [all_patterns |-> collected, result |-> PatternResult(collected)]

(***************************************************************************)
(* Complexity analyzer: _analyze_complexity.  radon is an external         *)
(* library; its numbers are modelled by a count of decision nodes.         *)
(***************************************************************************)

DecisionKinds == {"If", "For", "While", "Try"}

\* the nodes of the subtree of i, i included
Subtree(tree, i) == Walk(tree, i)

BlockComplexity(tree, i) ==
    1 + Len(SelectSeq(Subtree(tree, i), LAMBDA j : tree[j].kind \in DecisionKinds))

\* the largest element of a non-empty set of numbers
Largest(numbers) == CHOOSE l \in numbers : \A m \in numbers : m <= l

\* endlineno of a block: the last line of its subtree
EndLine(tree, i) ==
    LET nodes == Subtree(tree, i)
    IN Largest({tree[nodes[k]].lineno : k \in 1..Len(nodes)})

Block(tree, i) ==
    [name |-> tree[i].name, complexity |-> BlockComplexity(tree, i),
     lineno |-> tree[i].lineno, endlineno |-> EndLine(tree, i)]

RECURSIVE ClassBlocks(_, _)
ClassBlocks(tree, classes) ==
    IF classes = <<>> THEN <<>>
    ELSE LET c == Head(classes)
             methods == SelectSeq(Children(tree, c), LAMBDA j : tree[j].kind = "FunctionDef")
         IN <<Block(tree, c)>> \o [k \in 1..Len(methods) |-> Block(tree, methods[k])]
                \o ClassBlocks(tree, Tail(classes))

\* radon.complexity.cc_visit(content): the module's functions, then each
\* class followed by its methods
CcVisit(file) ==
    LET top == Children(file.tree, 0)
        functions == SelectSeq(top, LAMBDA j : file.tree[j].kind = "FunctionDef")
        classes == SelectSeq(top, LAMBDA j : file.tree[j].kind = "ClassDef")
    IN [k \in 1..Len(functions) |-> Block(file.tree, functions[k])]
           \o ClassBlocks(file.tree, classes)

\* radon.metrics.mi_visit(content, multi=True): a score that falls with
\* the number of decision nodes of the file
MiVisit(file) ==
    Max(0, 100 - 5 * Len(SelectSeq(file.tree, LAMBDA n : n.kind \in DecisionKinds)))

FunctionMetric(filepath, item) ==
    [file |-> filepath, function |-> item.name,
     cyclomatic_complexity |-> item.complexity,
     line_start |-> item.lineno, line_end |-> item.endlineno,
     loc |-> Max(item.endlineno - item.lineno + 1, 1)]

PutMetric(module_metrics, filepath, rec) ==
    [f \in DOMAIN module_metrics \cup {filepath} |->
        IF f = filepath THEN rec ELSE module_metrics[f]]

\* the body of the loop over files_data; c = [function_metrics, module_metrics].
\* cc_visit parses the content first, so it raises on a file that does not
\* parse, before anything is appended; the except clause continues
ComplexityOfFile(c, file) ==
    IF ~EndsWith(file.path, ".py") THEN c
    ELSE IF ~file.parseable THEN c
    ELSE LET cc_results == CcVisit(file)
         IN [function_metrics |-> c.function_metrics \o
                [k \in 1..Len(cc_results) |-> FunctionMetric(file.path, cc_results[k])],
             module_metrics |-> PutMetric(c.module_metrics, file.path,
                [maintainability_index |-> MiVisit(file), loc |-> file.newlines + 1])]

RECURSIVE ComplexityOfFiles(_, _)
ComplexityOfFiles(c, files_data) ==
    IF files_data = <<>> THEN c
    ELSE ComplexityOfFiles(ComplexityOfFile(c, Head(files_data)), Tail(files_data))

\* the summary statistics and the returned dictionary
ComplexityResult(c) ==
    LET n == Len(c.function_metrics)
        total == SumSeq([k \in 1..n |-> c.function_metrics[k].cyclomatic_complexity])
    IN [function_metrics |-> c.function_metrics,
        module_metrics |-> c.module_metrics,
        summary |->
            [avg_complexity |-> IF n > 0 THEN RoundHundredths(total, n) ELSE 0,
             complex_functions |->
                Len(SelectSeq(c.function_metrics, LAMBDA f : f.cyclomatic_complexity > 10)),
             total_functions |-> n,
             total_modules |-> Cardinality(DOMAIN c.module_metrics)]]

\* _analyze_complexity(files_data)
AnalyzeComplexity(c, files_data, radon) ==
    IF ~radon THEN [c |-> c, result |-> RadonError]
    ELSE LET done == ComplexityOfFiles(c, files_data)
         IN [c |-> done, result |-> ComplexityResult(done)]

(***************************************************************************)
(* Similarity clusterer: _analyze_similarity.  The embedding model and the *)
(* clustering are external; the model keeps which functions are embedded   *)
(* and the numbers derived from their count.                               *)
(***************************************************************************)

\* a function is embedded if len(func_code.strip()) > 20
MinFunctionChars == 20

\* a function embedded from 20 characters on
IsEmbeddedFromTwenty(node) ==
    node.kind = "FunctionDef" /\ node.chars >= MinFunctionChars

IsEmbedded(node) == node.kind = "FunctionDef" /\ node.chars > MinFunctionChars

\* the keys of the embeddings dictionary the loop over files_data builds
RECURSIVE EmbeddedFunctions(_)
EmbeddedFunctions(files_data) ==
    IF files_data = <<>> THEN {}
    ELSE LET file == Head(files_data)
         IN (IF EndsWith(file.path, ".py") /\ file.parseable
             THEN {FullName(file.path, file.tree[i].name) :
                      i \in {j \in 1..Len(file.tree) : IsEmbedded(file.tree[j])}}
             ELSE {})
            \cup EmbeddedFunctions(Tail(files_data))

Min(a, b) == IF a <= b THEN a ELSE b

\* max(2, min(10, len(embeddings) // 3))
ClusterCount(n) == Max(2, Min(10, n \div 3))

\* embedding: whether scikit-learn imports and the pretrained model loads,
\* "ok", "no_sklearn" or "no_model"
AnalyzeSimilarity(files_data, transformers, embedding) ==
    IF ~transformers THEN TransformersError
    ELSE IF embedding = "no_sklearn"
    THEN [error |-> "Required libraries not available",
          message |-> "Please install: pip install scikit-learn numpy"]
    ELSE IF embedding = "no_model"
    THEN [error |-> "Failed to load model",
          message |-> "Could not initialize CodeBERT. Please check internet connection."]
    ELSE LET n == Cardinality(EmbeddedFunctions(files_data))
         IN IF n < 2
            THEN [error |-> "Not enough functions found",
                  message |-> "Need at least 2 for similarity analysis."]
            ELSE [total_functions |-> n,
                  num_clusters |-> ClusterCount(n),
                  stats |-> [avg_cluster_size |-> RoundHundredths(n, ClusterCount(n))]]

(***************************************************************************)
(* The analyzer object and analyze_codebase_from_files                     *)
(***************************************************************************)

\* CodeIntelligenceAnalyzer.__init__
NewAnalyzer(networkx) ==
    [function_metrics |-> <<>>,
     module_metrics |-> <<>>,
     definitions |-> <<>>,
     all_names |-> {},
     graph |-> IF networkx THEN DiGraph ELSE NoGraph,
     all_patterns |-> <<>>,
     files_data |-> <<>>]

\* the optional capabilities, probed once when the module is imported
Capabilities(radon, networkx, transformers) ==
    [radon |-> radon, networkx |-> networkx, transformers |-> transformers]

\* analyze_codebase_from_files in which the pattern analysis starts by
\* emptying the metrics of the complexity analysis
AnalyzeCodebaseSharingState(self, files_data, analysis_types, cap, embedding) ==
    LET metrics == IF "patterns" \in analysis_types
                   THEN [function_metrics |-> <<>>, module_metrics |-> <<>>]
                   ELSE [function_metrics |-> self.function_metrics,
                         module_metrics |-> self.module_metrics]
    IN CHOOSE out \in
        {[self |-> [function_metrics |-> complexity.c.function_metrics,
                    module_metrics |-> complexity.c.module_metrics,
                    definitions |-> orphan.st.definitions,
                    all_names |-> orphan.st.all_names,
                    graph |-> orphan.st.graph,
                    all_patterns |-> patterns.all_patterns,
                    files_data |-> files_data],
          results |-> [complexity |-> complexity.result,
                       orphan |-> orphan.result,
                       patterns |-> patterns.result,
                       similarity |-> NoResult]] :
            complexity \in
                {IF "complexity" \in analysis_types
                 THEN AnalyzeComplexity(metrics, files_data, cap.radon)
                 ELSE [c |-> metrics, result |-> NoResult]},
            orphan \in
                {IF "orphan" \in analysis_types
                 THEN AnalyzeOrphanCode(
                        [definitions |-> self.definitions, all_names |-> self.all_names,
                         graph |-> self.graph], files_data, cap.networkx)
                 ELSE [st |-> [definitions |-> self.definitions,
                               all_names |-> self.all_names, graph |-> self.graph],
                       result |-> NoResult]},
            patterns \in
                {IF "patterns" \in analysis_types
                 THEN AnalyzePatterns(self.all_patterns, files_data)
                 ELSE [all_patterns |-> self.all_patterns, result |-> NoResult]}} : TRUE

\* analyze_codebase_from_files(files_data, analysis_types): the analyzer
\* after the call and the results dictionary it returns; the four kinds run
\* in this order, each on the fields the earlier ones left
AnalyzeCodebase(self, files_data, analysis_types, cap, embedding) ==
    CHOOSE out \in
        {[self |-> [function_metrics |-> complexity.c.function_metrics,
                    module_metrics |-> complexity.c.module_metrics,
                    definitions |-> orphan.st.definitions,
                    all_names |-> orphan.st.all_names,
                    graph |-> orphan.st.graph,
                    all_patterns |-> patterns.all_patterns,
                    files_data |-> files_data],
          results |-> [complexity |-> complexity.result,
                       orphan |-> orphan.result,
                       patterns |-> patterns.result,
                       similarity |-> similarity]] :
            complexity \in
                {IF "complexity" \in analysis_types
                 THEN AnalyzeComplexity(
                        [function_metrics |-> self.function_metrics,
                         module_metrics |-> self.module_metrics], files_data, cap.radon)
                 ELSE [c |-> [function_metrics |-> self.function_metrics,
                              module_metrics |-> self.module_metrics],
                       result |-> NoResult]},
            orphan \in
                {IF "orphan" \in analysis_types
                 THEN AnalyzeOrphanCode(
                        [definitions |-> self.definitions, all_names |-> self.all_names,
                         graph |-> self.graph], files_data, cap.networkx)
                 ELSE [st |-> [definitions |-> self.definitions,
                               all_names |-> self.all_names, graph |-> self.graph],
                       result |-> NoResult]},
            patterns \in
                {IF "patterns" \in analysis_types
                 THEN AnalyzePatterns(self.all_patterns, files_data)
                 ELSE [all_patterns |-> self.all_patterns, result |-> NoResult]},
            similarity \in
                {IF "similarity" \in analysis_types /\ cap.transformers
                 THEN AnalyzeSimilarity(files_data, cap.transformers, embedding)
                 ELSE NoResult}} : TRUE

(***************************************************************************)
(* The analysed files                                                      *)
(***************************************************************************)

\* def foo():
\*     bar()
FileA ==
    SourceFile("A.py", TRUE, 2,
        <<FunctionDefOfSize("foo", 0, 1, 20), Stmt("Expr", 1, 2), CallName("bar", 2, 2)>>)

\* def bar():
\*     pass
FileB == SourceFile("B.py", TRUE, 2, <<FunctionDefOfSize("bar", 0, 1, 19)>>)

\* def baz():
\*     pass
FileC == SourceFile("C.py", TRUE, 2, <<FunctionDefOfSize("baz", 0, 1, 19)>>)

\* a text that ast.parse rejects with a SyntaxError
FileBad == SourceFile("bad.py", FALSE, 1, <<>>)

\* class K:
\*     def __init__(self):
\*         self.run()
\*     def run(self):
\*         return helper()
\* def helper():
\*     return 1
\* def main():
\*     K()
\* def used():
\*     pass
\* used()
FileM ==
    SourceFile("M.py", TRUE, 12,
        <<ClassDef("K", 0, 1),
          FunctionDef("__init__", 1, 2), Stmt("Expr", 2, 3), CallAttr("run", 3, 3),
          FunctionDef("run", 1, 4), Stmt("Return", 5, 5), CallName("helper", 6, 5),
          FunctionDef("helper", 0, 6), Stmt("Return", 8, 7),
          FunctionDef("main", 0, 8), Stmt("Expr", 10, 9), CallName("K", 11, 9),
          FunctionDefOfSize("used", 0, 10, 20),
          Stmt("Expr", 0, 12), CallName("used", 14, 12)>>)

\* def outer():
\*     def inner():
\*         target()
\*     target()
\* def target():
\*     pass
\* target()
FileNested ==
    SourceFile("N.py", TRUE, 7,
        <<FunctionDef("outer", 0, 1),
          FunctionDef("inner", 1, 2), Stmt("Expr", 2, 3), CallName("target", 3, 3),
          Stmt("Expr", 1, 4), CallName("target", 5, 4),
          FunctionDef("target", 0, 5),
          Stmt("Expr", 0, 7), CallName("target", 8, 7)>>)

\* def dup():
\*     return 1
\* def dup():
\*     for x in y: pass
FileD ==
    SourceFile("D.py", TRUE, 4,
        <<FunctionDef("dup", 0, 1), Stmt("Return", 1, 2),
          FunctionDef("dup", 0, 3), Stmt("For", 3, 4)>>)

\* def six(x): six if statements in a row, then return x
\* def five(x): five if statements in a row, then return x
FileS ==
    SourceFile("S.py", TRUE, 15,
        <<FunctionDef("six", 0, 1)>>
        \o [k \in 1..6 |-> Stmt("If", 1, 1 + k)]
        \o <<Stmt("Return", 1, 8), FunctionDef("five", 0, 9)>>
        \o [k \in 1..5 |-> Stmt("If", 9, 9 + k)]
        \o <<Stmt("Return", 9, 15)>>)

\* the number of functions of FileBig that nothing calls: one more than
\* orphan_functions keeps
BigFunctions == 51

\* def u1():
\*     hub()
\* ... the same for u2 to u51, and then
\* def hub():
\*     pass
FileBig ==
    SourceFile("big.py", TRUE, 2 * BigFunctions + 2,
        [i \in 1..(3 * BigFunctions) |->
            LET k == (i + 2) \div 3
            IN IF i % 3 = 1 THEN FunctionDef("u" \o ToString(k), 0, 2 * k - 1)
               ELSE IF i % 3 = 2 THEN Stmt("Expr", i - 1, 2 * k)
               ELSE CallName("hub", i - 1, 2 * k)]
        \o <<FunctionDefOfSize("hub", 0, 2 * BigFunctions + 1, 19)>>)

\* the number of distinct token sequences of FilePatterns: two more than
\* common_patterns keeps
DistinctBodies == 22

\* the statements a body of FilePatterns is made of
StatementKinds == <<"For", "While", "If", "Try", "With", "Return", "Raise">>

\* the k-th body occurs in 1 + k % 3 functions; the functions are written
\* in rounds, the k-th body once per round while it has occurrences left
PatternSlots ==
    SelectSeq([n \in 1..(3 * DistinctBodies) |->
                  [k |-> 1 + ((n - 1) % DistinctBodies),
                   r |-> 1 + ((n - 1) \div DistinctBodies)]],
              LAMBDA slot : slot.r <= 1 + (slot.k % 3))

\* def p1_1():
\*     for ...: pass
\*     for ...: pass
\* def p2_1():
\*     for ...: pass
\*     while ...: pass
\* ... a function of two statements per slot, the k-th body being the
\* k-th pair of statement kinds
FilePatterns ==
    SourceFile("P.py", TRUE, 3 * Len(PatternSlots),
        [i \in 1..(3 * Len(PatternSlots)) |->
            LET f == (i + 2) \div 3
                slot == PatternSlots[f]
            IN IF i % 3 = 1
               THEN FunctionDef("p" \o ToString(slot.k) \o "_" \o ToString(slot.r),
                                0, 3 * f - 2)
               ELSE IF i % 3 = 2
               THEN Stmt(StatementKinds[1 + ((slot.k - 1) \div 7)], 3 * f - 2, 3 * f - 1)
               ELSE Stmt(StatementKinds[1 + ((slot.k - 1) % 7)], 3 * f - 2, 3 * f)])

\* C.py after an edit that left it unparseable:
\* def baz(:
FileCBroken == SourceFile("C.py", FALSE, 1, <<>>)

\* the file sets handed to analyze_codebase_from_files
FileSets ==
    {<<>>, <<FileA, FileB, FileC>>, <<FileA, FileBad, FileC>>,
     <<FileD, FileM>>, <<FileS>>, <<FileCBroken>>, <<FileNested>>}

\* file sets with more definitions than the result lists keep
LargeFileSets == {<<FileBig>>, <<FileA, FileBig>>, <<FilePatterns>>}

AnalysisKinds == {"complexity", "orphan", "patterns", "similarity"}

\* all four kinds at once, and single kinds as the tabs of the UI request them
AnalysisTypeChoices ==
    {AnalysisKinds, {"complexity"}, {"orphan"}, {"patterns"}}

EmbeddingOutcomes == {"ok", "no_sklearn", "no_model"}

(***************************************************************************)
(* State: one analyzer object and what its last call returned              *)
(***************************************************************************)

\* sample and verdict: one function handed to the pattern rules on their
\* own, and what they make of it (MiningSpec)
VARIABLES
    RADON_AVAILABLE, NETWORKX_AVAILABLE, TRANSFORMERS_AVAILABLE,
    function_metrics, module_metrics,
    definitions, all_names, graph,
    all_patterns, files_data,
    analysis_types, results, invocations,
    sample, verdict

\* The tutorial generation of app.py and app_new.py (AppSpec, CaptureSpec):
\* program is the script that runs; session_state is st.session_state;
\* message_queue is st.session_state.message_queue, kept as all messages
\* put so far and the number of them already taken; the threads are kept
\* by the number of their generation run, with their position; stop_event
\* is the threading.Event of a run; output_files are the .md files in the
\* output directory; console_capture is a ConsoleCapture and written the
\* text handed to its write calls so far
VARIABLES
    program, session_state, message_queue,
    generation_thread, monitor_thread, stop_event, output_files,
    console_capture, written

analyzerVars ==
    <<RADON_AVAILABLE, NETWORKX_AVAILABLE, TRANSFORMERS_AVAILABLE,
      function_metrics, module_metrics, definitions, all_names, graph,
      all_patterns, files_data, analysis_types, results, invocations,
      sample, verdict>>

appVars ==
    <<program, session_state, message_queue, generation_thread, monitor_thread,
      stop_event, output_files, console_capture, written>>

vars == <<analyzerVars, appVars>>

\* no script of the user interface runs next to the analyzer
NoApp ==
    /\ program = "none"
    /\ session_state = [none |-> TRUE]
    /\ message_queue = [items |-> <<>>, taken |-> 0]
    /\ generation_thread = <<>>
    /\ monitor_thread = <<>>
    /\ stop_event = <<>>
    /\ output_files = {}
    /\ console_capture = [buffer |-> ""]
    /\ written = ""

\* the number of calls of analyze_codebase_from_files on one analyzer
MaxInvocations == 2

Self ==
    [function_metrics |-> function_metrics,
     module_metrics |-> module_metrics,
     definitions |-> definitions,
     all_names |-> all_names,
     graph |-> graph,
     all_patterns |-> all_patterns,
     files_data |-> files_data]

Available == Capabilities(RADON_AVAILABLE, NETWORKX_AVAILABLE, TRANSFORMERS_AVAILABLE)

NoResults ==
    [complexity |-> NoResult, orphan |-> NoResult, patterns |-> NoResult,
     similarity |-> NoResult]

NoSample ==
    [ifs |-> 0, returns |-> FALSE, call |-> "none", nest |-> FALSE, tries |-> 0,
     fors |-> 0, inner |-> FALSE, count |-> 0, total |-> 0]

NoVerdict == [mined |-> FALSE]

\* a new analyzer in a process that found the given capabilities
NewAnalyzerState ==
    /\ function_metrics = NewAnalyzer(NETWORKX_AVAILABLE).function_metrics
    /\ module_metrics = NewAnalyzer(NETWORKX_AVAILABLE).module_metrics
    /\ definitions = NewAnalyzer(NETWORKX_AVAILABLE).definitions
    /\ all_names = NewAnalyzer(NETWORKX_AVAILABLE).all_names
    /\ graph = NewAnalyzer(NETWORKX_AVAILABLE).graph
    /\ all_patterns = NewAnalyzer(NETWORKX_AVAILABLE).all_patterns
    /\ files_data = NewAnalyzer(NETWORKX_AVAILABLE).files_data
    /\ analysis_types = {}
    /\ results = NoResults
    /\ invocations = 0

Init ==
    /\ RADON_AVAILABLE \in BOOLEAN
    /\ NETWORKX_AVAILABLE \in BOOLEAN
    /\ TRANSFORMERS_AVAILABLE \in BOOLEAN
    /\ NewAnalyzerState
    /\ sample = NoSample
    /\ verdict = NoVerdict
    /\ NoApp

\* whether the call reaches the import of scikit-learn and the loading of
\* the embedding model
LoadsEmbedding(types) == "similarity" \in types /\ TRANSFORMERS_AVAILABLE

\* one call analyzer.analyze_codebase_from_files(files, types)
Analyze(files, types, embedding) ==
    /\ invocations < MaxInvocations
    /\ LoadsEmbedding(types) \/ embedding = "ok"
    /\ \E out \in {AnalyzeCodebase(Self, files, types, Available, embedding)} :
          /\ function_metrics' = out.self.function_metrics
          /\ module_metrics' = out.self.module_metrics
          /\ definitions' = out.self.definitions
          /\ all_names' = out.self.all_names
          /\ graph' = out.self.graph
          /\ all_patterns' = out.self.all_patterns
          /\ files_data' = out.self.files_data
          /\ results' = out.results
    /\ analysis_types' = types
    /\ invocations' = invocations + 1
    /\ UNCHANGED <<RADON_AVAILABLE, NETWORKX_AVAILABLE, TRANSFORMERS_AVAILABLE,
                   sample, verdict>>
    /\ UNCHANGED appVars

Next ==
    \E files \in FileSets, types \in AnalysisTypeChoices, embedding \in EmbeddingOutcomes :
        Analyze(files, types, embedding)

Spec == Init /\ [][Next]_vars

\* the same analyzer on file sets that exceed the limits of the result lists
NextLarge ==
    \E files \in LargeFileSets, types \in AnalysisTypeChoices :
        Analyze(files, types, "ok")

LargeSpec == Init /\ [][NextLarge]_vars

(***************************************************************************)
(* The pattern rules on one function: a function body drawn from a small   *)
(* family, with the number of times its token sequence occurs among the    *)
(* functions analysed, is taken through the extractor, the anti-pattern    *)
(* rules, the frequency filter and the classification.                     *)
(***************************************************************************)

\* the largest number of if statements in a sampled function
MaxIfs == 11

\* the largest number of try statements in a sampled function
MaxTries == 2

\* the largest number of for loops in a sampled function
MaxFors == 4

\* the largest occurrence count of a sampled token sequence
MaxCount == 2

\* the forms of the one call statement of a sampled function: none,
\* helper(), obj.helper(), super()
CallForms == {"none", "name", "attr", "super"}

\* further forms, by the function called: download_page(), Download(),
\* find_regex(), download_regex(), and the attribute call obj.download()
NamedCallForms == {"download", "Download", "regex", "both", "attr_download"}

\* the identifier called by a call form
CallTarget(form) ==
    IF form = "super" THEN "super"
    ELSE IF form = "download" THEN "download_page"
    ELSE IF form = "Download" THEN "Download"
    ELSE IF form = "regex" THEN "find_regex"
    ELSE IF form = "both" THEN "download_regex"
    ELSE IF form = "attr_download" THEN "download"
    ELSE "helper"

\* def f(x):
\*     if ...:             (ifs times; the first one holds
\*         while ...: pass  a while loop if nest, else pass)
\*     try: ... except: ...   (tries times)
\*     for ...: pass       (fors times; the first one holds
\*                          a while loop if inner, else pass)
\*     helper()            (or another call form, or nothing)
\*     return x            (if returns)
\* the nodes are listed statement by statement, the nested loops last
SampleTree(smp) ==
    LET body == smp.ifs + smp.tries + smp.fors
    IN <<FunctionDef("f", 0, 1)>>
       \o [k \in 1..smp.ifs |-> Stmt("If", 1, 1 + 2 * k)]
       \o [k \in 1..smp.tries |-> Stmt("Try", 1, 2 * smp.ifs + 2 * k)]
       \o [k \in 1..smp.fors |-> Stmt("For", 1, 2 * (smp.ifs + smp.tries) + k)]
       \o (IF smp.call = "none" THEN <<>>
           ELSE <<Stmt("Expr", 1, 2 * body + 2),
                  IF smp.call \in {"attr", "attr_download"}
                  THEN CallAttr(CallTarget(smp.call), body + 2, 2 * body + 2)
                  ELSE CallName(CallTarget(smp.call), body + 2, 2 * body + 2)>>)
       \o (IF smp.returns THEN <<Stmt("Return", 1, 2 * body + 3)>> ELSE <<>>)
       \o (IF smp.nest THEN <<Stmt("While", 2, 4)>> ELSE <<>>)
       \o (IF smp.inner
           THEN <<Stmt("While", 2 + smp.ifs + smp.tries,
                       2 * (smp.ifs + smp.tries) + 2)>>
           ELSE <<>>)

\* every body with its sequence occurring once in one function, and the
\* bodies of at most one if statement at every count and total up to the
\* point where MaxCount occurrences fall below 0.5%
Samples ==
    {smp \in [ifs : 0..MaxIfs, returns : BOOLEAN, call : CallForms \cup NamedCallForms,
              nest : BOOLEAN, tries : 0..MaxTries, fors : 0..MaxFors,
              inner : BOOLEAN, count : {1}, total : {1}] :
        /\ smp.nest => smp.ifs >= 1
        /\ smp.inner => smp.fors >= 1}
    \cup {smp \in [ifs : 0..1, returns : BOOLEAN, call : CallForms,
                   nest : {FALSE}, tries : {0}, fors : {0}, inner : {FALSE},
                   count : 1..MaxCount, total : 1..(200 * MaxCount + 2)] :
             smp.count <= smp.total}

MiningInit ==
    /\ RADON_AVAILABLE = TRUE
    /\ NETWORKX_AVAILABLE = TRUE
    /\ TRANSFORMERS_AVAILABLE = TRUE
    /\ NewAnalyzerState
    /\ sample \in Samples
    /\ verdict = NoVerdict
    /\ NoApp

\* the Counter of a code base of sample.total functions in which the
\* sequence occurs sample.count times; the other functions are one loop
\* and a return
SampleCounts(pattern, smp) ==
    <<[pattern |-> pattern, count |-> smp.count]>>
    \o (IF smp.total > smp.count
        THEN <<[pattern |-> <<"LOOP", "RETURN">>, count |-> smp.total - smp.count]>>
        ELSE <<>>)

\* _extract_patterns on the sampled function, then _detect_anti_patterns,
\* _is_meaningful_pattern and _classify_pattern on what it gives, and the
\* common_patterns list built from the Counter of the sampled code base
Mine ==
    /\ ~verdict.mined
    /\ \E patterns \in {ExtractPatterns("f.py", SampleTree(sample))} :
          verdict' =
            [mined |-> TRUE,
             patterns |-> patterns,
             anti_patterns |-> DetectAntiPatterns(FunctionPatterns(patterns)),
             meaningful |-> IsMeaningfulPattern(patterns[1].pattern, sample.count, sample.total),
             classification |-> ClassifyPattern(patterns[1].pattern),
             common_patterns |->
                LET top_patterns ==
                        TopPatterns(SampleCounts(patterns[1].pattern, sample), sample.total)
                IN [i \in DOMAIN top_patterns |->
                        CommonPattern(top_patterns[i], sample.total)]]
    /\ UNCHANGED <<RADON_AVAILABLE, NETWORKX_AVAILABLE, TRANSFORMERS_AVAILABLE,
                   function_metrics, module_metrics, definitions, all_names, graph,
                   all_patterns, files_data, analysis_types, results, invocations,
                   sample>>
    /\ UNCHANGED appVars

MiningSpec == MiningInit /\ [][Mine]_vars

(***************************************************************************)
(* ConsoleCapture of app.py and app_new.py: the file object that stdout    *)
(* and stderr are redirected to while the tutorial flow runs.  Texts are   *)
(* strings; a console message is kept by its text, the timestamp left out. *)
(***************************************************************************)

\* the characters str.strip() removes
Whitespace == {" ", "\n", "\t"}

\* not text.strip()
IsBlank(text) == \A i \in 1..Len(text) : SubSeq(text, i, i) \in Whitespace

\* str.strip()
RECURSIVE Strip(_)
Strip(text) ==
    IF Len(text) = 0 THEN ""
    ELSE IF SubSeq(text, 1, 1) \in Whitespace THEN Strip(SubSeq(text, 2, Len(text)))
    ELSE IF SubSeq(text, Len(text), Len(text)) \in Whitespace
    THEN Strip(SubSeq(text, 1, Len(text) - 1))
    ELSE text

\* '\n' in text
HasNewline(text) == \E i \in 1..Len(text) : SubSeq(text, i, i) = "\n"

\* text.split('\n')
RECURSIVE SplitLines(_)
SplitLines(text) ==
    IF ~HasNewline(text) THEN <<text>>
    ELSE LET i == CHOOSE k \in 1..Len(text) :
                    /\ SubSeq(text, k, k) = "\n"
                    /\ \A m \in 1..(k - 1) : SubSeq(text, m, m) # "\n"
         IN <<SubSeq(text, 1, i - 1)>> \o SplitLines(SubSeq(text, i + 1, Len(text)))

ConsoleMessage(line) == [type |-> "console", message |-> Strip(line)]

\* the messages put for lines[:-1]
ConsoleMessages(lines) ==
    LET kept == SelectSeq(SubSeq(lines, 1, Len(lines) - 1), LAMBDA line : ~IsBlank(line))
    IN [n \in DOMAIN kept |-> ConsoleMessage(kept[n])]

\* ConsoleCapture.write(text): the capture after the call and the messages
\* it puts on the queue
ConsoleWrite(capture, text) ==
    IF Len(text) > 0 /\ ~IsBlank(text)
    THEN LET buffer == capture.buffer \o text
             lines == SplitLines(buffer)
         IN IF HasNewline(text)
            THEN [capture |-> [capture EXCEPT !.buffer = lines[Len(lines)]],
                  puts |-> ConsoleMessages(lines)]
            ELSE [capture |-> [capture EXCEPT !.buffer = buffer], puts |-> <<>>]
    ELSE [capture |-> capture, puts |-> <<>>]

\* msg_queue.put, once per message
Put(msg_queue, messages) == [msg_queue EXCEPT !.items = @ \o messages]

\* the number of write calls on one ConsoleCapture
MaxWrites == 3

\* the characters of the written texts
Characters == {"a", "b", " ", "\n"}

\* the texts of a write call: nothing, one character or two
Texts ==
    {""} \cup Characters \cup {c \o d : c \in Characters, d \in Characters}

\* a ConsoleCapture on an empty queue
CaptureInit ==
    /\ RADON_AVAILABLE = FALSE
    /\ NETWORKX_AVAILABLE = FALSE
    /\ TRANSFORMERS_AVAILABLE = FALSE
    /\ NewAnalyzerState
    /\ sample = NoSample
    /\ verdict = NoVerdict
    /\ program \in {"app.py", "app_new.py"}
    /\ session_state = [none |-> TRUE]
    /\ message_queue = [items |-> <<>>, taken |-> 0]
    /\ generation_thread = <<>>
    /\ monitor_thread = <<>>
    /\ stop_event = <<>>
    /\ output_files = {}
    /\ console_capture = [buffer |-> "", writes |-> 0]
    /\ written = ""

\* console_capture.write(text), as print and logging call it
Write(text) ==
    /\ console_capture.writes < MaxWrites
    /\ \E out \in {ConsoleWrite(console_capture, text)} :
          /\ console_capture' = [out.capture EXCEPT !.writes = @ + 1]
          /\ message_queue' = Put(message_queue, out.puts)
    /\ written' = written \o text
    /\ UNCHANGED <<program, session_state, generation_thread, monitor_thread,
                   stop_event, output_files>>
    /\ UNCHANGED analyzerVars

CaptureNext == \E text \in Texts : Write(text)

CaptureSpec == CaptureInit /\ [][CaptureNext]_vars

(***************************************************************************)
(* The tutorial generation of app.py and app_new.py: the script of the     *)
(* user interface, which Streamlit runs from the top at every click and    *)
(* every st.rerun(), the generation thread it starts, and in app.py the    *)
(* thread that watches the output directory.  The lists of the session     *)
(* state are kept by their length.  app_new.py names the fields of app.py  *)
(* error_message, output_dir, generated_files and progress_log            *)
(* tutorial_error, tutorial_output_dir, tutorial_files and                 *)
(* tutorial_progress_log.                                                  *)
(***************************************************************************)

\* the number of generation threads started in one session
MaxRuns == 2

\* the .md files the tutorial flow writes
MaxFiles == 1

Log(message, level) == [type |-> "log", message |-> message, level |-> level]

\* the session state the script sets up when the session begins
NewSession(script) ==
    [page |-> IF script = "app.py" THEN "configure" ELSE "tutorial",
     tutorial_running |-> FALSE,
     tutorial_complete |-> FALSE,
     error_message |-> None,
     output_dir |-> None,
     expected_output_dir |-> None,
     current_step |-> None,
     progress_log |-> 0,
     generated_files |-> 0,
     console_output |-> 0]

\* one turn of the loop of process_message_queue
ProcessMessage(script, state, msg) ==
    IF msg.type = "log" THEN [state EXCEPT !.progress_log = @ + 1]
    ELSE IF msg.type = "console"
    THEN [state EXCEPT !.console_output = @ + 1, !.progress_log = @ + 1]
    ELSE IF msg.type = "file" THEN [state EXCEPT !.generated_files = @ + 1]
    ELSE IF msg.type = "output_dir"
    THEN [state EXCEPT !.output_dir = msg.path,
                       !.expected_output_dir =
                            IF script = "app.py" /\ @ = None THEN msg.path ELSE @]
    ELSE IF msg.type = "step" THEN [state EXCEPT !.current_step = msg.step]
    ELSE IF msg.type = "error" THEN [state EXCEPT !.error_message = msg.message]
    ELSE IF msg.type = "complete"
    THEN [state EXCEPT !.tutorial_running = FALSE, !.tutorial_complete = msg.success]
    ELSE state

\* process_message_queue(): every message on the queue is taken and
\* handled, in the order of the queue, until the queue is empty
RECURSIVE ProcessMessages(_, _, _)
ProcessMessages(script, state, messages) ==
    IF messages = <<>> THEN state
    ELSE ProcessMessages(script, ProcessMessage(script, state, Head(messages)),
                         Tail(messages))

\* the messages on the queue, the oldest first
Queued(msg_queue) == SubSeq(msg_queue.items, msg_queue.taken + 1, Len(msg_queue.items))

\* threading.Thread(target=run_tutorial_generation_thread, ...).start():
\* the thread of a new run, its monitor not started and its event not set
StartGenerationThread ==
    /\ Len(generation_thread) < MaxRuns
    /\ generation_thread' =
          Append(generation_thread,
                 [pc |-> "begin", outcome |-> None])
    /\ monitor_thread' =
          Append(monitor_thread,
                 [pc |-> "unstarted", known_files |-> {}, current_files |-> {},
                  new_files |-> <<>>])
    /\ stop_event' = Append(stop_event, FALSE)

NoThreadStarted == UNCHANGED <<generation_thread, monitor_thread, stop_event>>

\* render_configure of app.py with Generate Tutorial clicked (the API key
\* being configured): the page becomes the generation page
ClickGenerateTutorial ==
    /\ program = "app.py"
    /\ session_state.page = "configure"
    /\ session_state' = [session_state EXCEPT !.page = "generate"]
    /\ NoThreadStarted
    /\ UNCHANGED <<program, message_queue, output_files, console_capture, written>>
    /\ UNCHANGED analyzerVars

\* main of app.py with Tutorial Generation clicked in the sidebar
ClickNavigation ==
    /\ program = "app.py"
    /\ session_state.page = "generate"
    /\ session_state' = [session_state EXCEPT !.page = "configure"]
    /\ NoThreadStarted
    /\ UNCHANGED <<program, message_queue, output_files, console_capture, written>>
    /\ UNCHANGED analyzerVars

\* render_generate of app.py, one run of the script on the generation
\* page: by the auto-refresh (click "none") or by a click on a button that
\* the run before had put on the page
RenderGenerate(click) ==
    /\ program = "app.py"
    /\ session_state.page = "generate"
    /\ click = "another" =>
          session_state.tutorial_complete /\ session_state.output_dir # None
    /\ click = "try_again" => session_state.error_message # None
    /\ \E processed \in {ProcessMessages(program, session_state, Queued(message_queue))} :
          LET starts == ~processed.tutorial_running /\ ~processed.tutorial_complete
              started ==
                  IF starts
                  THEN [processed EXCEPT !.tutorial_running = TRUE,
                                         !.progress_log = 0,
                                         !.generated_files = 0,
                                         !.error_message = None]
                  ELSE processed
          IN /\ IF starts THEN StartGenerationThread ELSE NoThreadStarted
             /\ session_state' =
                  IF /\ click = "another"
                     /\ started.tutorial_complete /\ started.output_dir # None
                  THEN [started EXCEPT !.page = "configure",
                                       !.tutorial_complete = FALSE,
                                       !.tutorial_running = FALSE,
                                       !.output_dir = None,
                                       !.progress_log = 0,
                                       !.generated_files = 0,
                                       !.console_output = 0]
                  ELSE IF click = "try_again" /\ started.error_message # None
                  THEN [started EXCEPT !.tutorial_running = FALSE,
                                       !.tutorial_complete = FALSE,
                                       !.error_message = None,
                                       !.page = "configure"]
                  ELSE started
    /\ message_queue' = [message_queue EXCEPT !.taken = Len(message_queue.items)]
    /\ UNCHANGED <<program, output_files, console_capture, written>>
    /\ UNCHANGED analyzerVars

\* render_tutorial_tab of app_new.py, one run of the script: by the
\* auto-refresh (click "none") or by a click on a button that the run
\* before had put on the page
RenderTutorialTab(click) ==
    /\ program = "app_new.py"
    /\ click = "generate" =>
          ~session_state.tutorial_complete /\ ~session_state.tutorial_running
    /\ click = "another" =>
          session_state.tutorial_complete /\ session_state.output_dir # None
    /\ click = "try_again" => session_state.error_message # None
    /\ IF /\ click = "generate"
          /\ ~session_state.tutorial_complete /\ ~session_state.tutorial_running
       THEN /\ session_state' = [session_state EXCEPT !.tutorial_running = TRUE,
                                                      !.tutorial_complete = FALSE,
                                                      !.error_message = None,
                                                      !.console_output = 0,
                                                      !.progress_log = 0]
            /\ StartGenerationThread
            /\ UNCHANGED message_queue
       ELSE IF session_state.tutorial_running
       THEN /\ session_state' =
                  ProcessMessages(program, session_state, Queued(message_queue))
            /\ message_queue' = [message_queue EXCEPT !.taken = Len(message_queue.items)]
            /\ NoThreadStarted
       ELSE /\ session_state' =
                  IF /\ click = "another"
                     /\ session_state.tutorial_complete /\ session_state.output_dir # None
                  THEN [session_state EXCEPT !.tutorial_complete = FALSE,
                                             !.tutorial_running = FALSE,
                                             !.output_dir = None,
                                             !.console_output = 0]
                  ELSE IF click = "try_again" /\ session_state.error_message # None
                  THEN [session_state EXCEPT !.tutorial_running = FALSE,
                                             !.tutorial_complete = FALSE,
                                             !.error_message = None]
                  ELSE session_state
            /\ NoThreadStarted
            /\ UNCHANGED message_queue
    /\ UNCHANGED <<program, output_files, console_capture, written>>
    /\ UNCHANGED analyzerVars

\* the except block that ends without its last put
FailureMessagesWithoutComplete(script) ==
    IF script = "app.py"
    THEN <<Log("Check the terminal for detailed error information", "info")>>
    ELSE <<>>

\* the messages the except block puts after the error is reported
FailureMessages(script) ==
    IF script = "app.py"
    THEN <<Log("Check the terminal for detailed error information", "info"),
           [type |-> "complete", success |-> FALSE]>>
    ELSE <<[type |-> "complete", success |-> FALSE]>>

\* the generation thread of run r moves on and puts the messages
GenerationStep(r, from, to, messages) ==
    /\ r \in DOMAIN generation_thread
    /\ generation_thread[r].pc = from
    /\ generation_thread' =
          [generation_thread EXCEPT
              ![r].pc = to,
              ![r].outcome = IF to = "except" THEN "failure" ELSE @]
    /\ message_queue' = Put(message_queue, messages)

\* run_tutorial_generation_thread up to the call of the flow; the
\* preparation raises (a local directory of None, a flow that cannot be
\* created) or goes through, and app.py starts the monitor on the way
BeginGeneration(r, raises) ==
    /\ GenerationStep(r, "begin", IF raises THEN "except" ELSE "flow",
            <<Log("Starting tutorial generation...", "info"),
              Log("Source", "info"),
              Log("Language", "info")>>
            \o (IF raises THEN <<>>
                ELSE IF program = "app.py"
                THEN <<[type |-> "output_dir", path |-> "output/project"],
                       Log("Initializing workflow...", "info"),
                       [type |-> "step", step |-> "Initializing"],
                       Log("Running tutorial generation workflow...", "info"),
                       [type |-> "step", step |-> "Running Workflow"]>>
                ELSE <<[type |-> "output_dir", path |-> "output/project"],
                       Log("Initializing workflow...", "info"),
                       Log("Running tutorial generation workflow...", "info")>>))
    /\ monitor_thread' =
          IF ~raises /\ program = "app.py"
          THEN [monitor_thread EXCEPT ![r].pc = "check"]
          ELSE monitor_thread
    /\ UNCHANGED <<program, session_state, stop_event, output_files,
                   console_capture, written>>
    /\ UNCHANGED analyzerVars

\* tutorial_flow.run(shared) writes a chapter to the output directory
\* (what it prints goes through ConsoleCapture.write, see CaptureSpec)
FlowWritesFile(r, file) ==
    /\ r \in DOMAIN generation_thread
    /\ generation_thread[r].pc = "flow"
    /\ file \notin output_files
    /\ output_files' = output_files \cup {file}
    /\ UNCHANGED <<program, session_state, message_queue, generation_thread,
                   monitor_thread, stop_event, console_capture, written>>
    /\ UNCHANGED analyzerVars

\* tutorial_flow.run(shared) returns or raises
FlowEnds(r, raises) ==
    /\ r \in DOMAIN generation_thread
    /\ generation_thread[r].pc = "flow"
    /\ generation_thread' =
          [generation_thread EXCEPT
              ![r].pc = IF raises THEN "except" ELSE "after_flow",
              ![r].outcome = IF raises THEN "failure" ELSE "success"]
    /\ UNCHANGED <<program, session_state, message_queue, monitor_thread,
                   stop_event, output_files, console_capture, written>>
    /\ UNCHANGED analyzerVars

\* app.py: stop_event.set() after the flow
StopMonitoring(r) ==
    /\ program = "app.py"
    /\ GenerationStep(r, "after_flow", "join", <<>>)
    /\ stop_event' = [stop_event EXCEPT ![r] = TRUE]
    /\ UNCHANGED <<program, session_state, monitor_thread, output_files,
                   console_capture, written>>
    /\ UNCHANGED analyzerVars

\* app.py: monitor_thread.join(timeout=2) returns, the monitor having
\* ended or the two seconds having passed
JoinMonitor(r) ==
    /\ program = "app.py"
    /\ GenerationStep(r, "join", "signal", <<>>)
    /\ UNCHANGED <<program, session_state, monitor_thread, stop_event, output_files,
                   console_capture, written>>
    /\ UNCHANGED analyzerVars

\* the success path ends: its messages, the complete message last
SignalCompletion(r) ==
    /\ GenerationStep(r, IF program = "app.py" THEN "signal" ELSE "after_flow",
                      IF program = "app.py" THEN "finally" ELSE "done",
                      IF program = "app.py"
                      THEN <<[type |-> "output_dir", path |-> "output/project"],
                             Log("Tutorial generation complete!", "success"),
                             Log("Output saved to", "success"),
                             [type |-> "complete", success |-> TRUE]>>
                      ELSE <<Log("Tutorial generation complete!", "success"),
                             [type |-> "output_dir", path |-> "output/project"],
                             [type |-> "complete", success |-> TRUE]>>)
    /\ UNCHANGED <<program, session_state, monitor_thread, stop_event, output_files,
                   console_capture, written>>
    /\ UNCHANGED analyzerVars

\* except Exception: the error is reported
HandleException(r) ==
    /\ GenerationStep(r, "except", "except_end",
            IF program = "app.py"
            THEN <<[type |-> "error", message |-> "error_msg"], Log("Error", "error")>>
            ELSE <<Log("Error", "error"), Log("Traceback", "error"),
                   [type |-> "error", message |-> "error_msg"]>>)
    /\ UNCHANGED <<program, session_state, monitor_thread, stop_event, output_files,
                   console_capture, written>>
    /\ UNCHANGED analyzerVars

\* the except block ends: the complete message last
SignalFailure(r) ==
    /\ GenerationStep(r, "except_end",
                      IF program = "app.py" THEN "finally" ELSE "done",
                      FailureMessages(program))
    /\ UNCHANGED <<program, session_state, monitor_thread, stop_event, output_files,
                   console_capture, written>>
    /\ UNCHANGED analyzerVars

\* app.py: finally: stop_event.set()
Finally(r) ==
    /\ program = "app.py"
    /\ GenerationStep(r, "finally", "done", <<>>)
    /\ stop_event' = [stop_event EXCEPT ![r] = TRUE]
    /\ UNCHANGED <<program, session_state, monitor_thread, output_files,
                   console_capture, written>>
    /\ UNCHANGED analyzerVars

\* sorted(new_files), the files being numbered
RECURSIVE Sorted(_)
Sorted(files) ==
    IF files = {} THEN <<>>
    ELSE LET first == CHOOSE f \in files : \A g \in files : f <= g
         IN <<first>> \o Sorted(files \ {first})

\* monitor_output_directory_thread at the head of its loop: it ends if the
\* event is set, and else walks the directory for the .md files in it
MonitorChecks(r) ==
    /\ r \in DOMAIN monitor_thread
    /\ monitor_thread[r].pc = "check"
    /\ monitor_thread' =
          IF stop_event[r]
          THEN [monitor_thread EXCEPT ![r].pc = "ended"]
          ELSE [monitor_thread EXCEPT
                  ![r].pc = "report",
                  ![r].current_files = output_files,
                  ![r].new_files =
                      Sorted(output_files \ monitor_thread[r].known_files)]
    /\ UNCHANGED <<program, session_state, message_queue, generation_thread,
                   stop_event, output_files, console_capture, written>>
    /\ UNCHANGED analyzerVars

\* the monitor reports the next new file with a file and a log message,
\* or, with none left, remembers the files and sleeps a second
MonitorReports(r) ==
    /\ r \in DOMAIN monitor_thread
    /\ monitor_thread[r].pc = "report"
    /\ IF monitor_thread[r].new_files # <<>>
       THEN /\ message_queue' =
                  Put(message_queue,
                      <<[type |-> "file", file_info |-> Head(monitor_thread[r].new_files)],
                        Log("Generated: " \o ToString(Head(monitor_thread[r].new_files)), "success")>>)
            /\ monitor_thread' = [monitor_thread EXCEPT ![r].new_files = Tail(@)]
       ELSE /\ monitor_thread' =
                  [monitor_thread EXCEPT ![r].pc = "check",
                                         ![r].known_files = monitor_thread[r].current_files]
            /\ UNCHANGED message_queue
    /\ UNCHANGED <<program, session_state, generation_thread, stop_event,
                   output_files, console_capture, written>>
    /\ UNCHANGED analyzerVars

\* a session of the script begins: nothing generated, queue empty
AppInit ==
    /\ RADON_AVAILABLE = FALSE
    /\ NETWORKX_AVAILABLE = FALSE
    /\ TRANSFORMERS_AVAILABLE = FALSE
    /\ NewAnalyzerState
    /\ sample = NoSample
    /\ verdict = NoVerdict
    /\ program \in {"app.py", "app_new.py"}
    /\ session_state = NewSession(program)
    /\ message_queue = [items |-> <<>>, taken |-> 0]
    /\ generation_thread = <<>>
    /\ monitor_thread = <<>>
    /\ stop_event = <<>>
    /\ output_files = {}
    /\ console_capture = [buffer |-> "", writes |-> 0]
    /\ written = ""

\* a step of the generation thread of run r
GenerationThread(r) ==
    \/ \E raises \in BOOLEAN : BeginGeneration(r, raises)
    \/ \E file \in 1..MaxFiles : FlowWritesFile(r, file)
    \/ \E raises \in BOOLEAN : FlowEnds(r, raises)
    \/ StopMonitoring(r)
    \/ JoinMonitor(r)
    \/ SignalCompletion(r)
    \/ HandleException(r)
    \/ SignalFailure(r)
    \/ Finally(r)

\* a step of the monitor thread of run r
MonitorThread(r) == MonitorChecks(r) \/ MonitorReports(r)

\* a run of the script, by a click or by the auto-refresh, or a step of
\* a thread
AppNext ==
    \/ ClickGenerateTutorial
    \/ ClickNavigation
    \/ \E click \in {"none", "another", "try_again"} : RenderGenerate(click)
    \/ \E click \in {"none", "generate", "another", "try_again"} : RenderTutorialTab(click)
    \/ \E r \in 1..MaxRuns : GenerationThread(r)
    \/ \E r \in 1..MaxRuns : MonitorThread(r)

AppSpec == AppInit /\ [][AppNext]_vars

\* the threads are scheduled, the flow comes to an end, and the script
\* is run again by its auto-refresh
AppFairSpec ==
    /\ AppSpec
    /\ \A r \in 1..MaxRuns : WF_vars(GenerationThread(r))
    /\ WF_vars(RenderTutorialTab("none"))
    /\ WF_vars(RenderGenerate("none"))

(***************************************************************************)
(* What the claims speak of                                                *)
(***************************************************************************)

\* the last call asked for kind, and has returned
Requested(kind) == invocations >= 1 /\ kind \in analysis_types

\* the last call built the call graph and returned an orphan result
OrphanAnalysed == Requested("orphan") /\ NETWORKX_AVAILABLE

FullNames(infos) == {infos[i].full_name : i \in 1..Len(infos)}

ParseableFiles(files) == SelectSeq(files, LAMBDA file : file.parseable)

\* the function and class definitions of a file, as indices of its tree
DefinitionNodes(file) ==
    {i \in 1..Len(file.tree) : file.tree[i].kind \in {"FunctionDef", "ClassDef"}}

FunctionNodes(file) ==
    {i \in 1..Len(file.tree) : file.tree[i].kind = "FunctionDef"}

\* the number of function and class definitions in the parseable files
DefinitionCount(files) ==
    SumSeq([k \in 1..Len(files) |->
        IF files[k].parseable THEN Cardinality(DefinitionNodes(files[k])) ELSE 0])

\* some call expression of the file set names the identifier
Referenced(name, files) ==
    \E k \in 1..Len(files) :
        /\ files[k].parseable
        /\ \E i \in 1..Len(files[k].tree) :
              files[k].tree[i].kind = "Call" /\ CalledName(files[k].tree[i]) = name

\* C1: for the files A (foo calls bar), B (bar) and C (baz) in this order,
\* the orphan analysis of a new analyzer builds a graph of 3 nodes and the
\* single edge A::foo -> B::bar; orphan_functions has foo and baz and not
\* bar; entry_points has foo.
C1_ThreeFileScenario ==
    (OrphanAnalysed /\ invocations = 1 /\ files_data = <<FileA, FileB, FileC>>)
    => /\ Len(graph.nodes) = 3
       /\ graph.edges = {<<"A.py::foo", "B.py::bar">>}
       /\ {"A.py::foo", "C.py::baz"} \subseteq FullNames(results.orphan.orphan_functions)
       /\ "B.py::bar" \notin FullNames(results.orphan.orphan_functions)
       /\ "A.py::foo" \in FullNames(results.orphan.entry_points)

\* C2: in every orphan result, a function of the file set that no call
\* expression references, that is not named main and whose name does not
\* start with __, is in orphan_functions; and a function that some call
\* expression of the file set references, inside or outside a function
\* body, is not in orphan_functions.
C2_OrphanDetection ==
    OrphanAnalysed =>
        \A k \in 1..Len(files_data) :
            files_data[k].parseable =>
                \A i \in FunctionNodes(files_data[k]) :
                    LET name == files_data[k].tree[i].name
                        full_name == FullName(files_data[k].path, name)
                    IN /\ (~Referenced(name, files_data) /\ ~IsSpecial(name))
                            => full_name \in FullNames(results.orphan.orphan_functions)
                       /\ Referenced(name, files_data)
                            => full_name \notin FullNames(results.orphan.orphan_functions)

\* the summary of a result, or the error or missing result itself
SummaryOf(result) == IF "summary" \in DOMAIN result THEN result.summary ELSE result

\* what C3 compares between two analyses: the summary counts, the
\* anti-pattern findings and the common-pattern list
ReportOf(r) ==
    [complexity |-> SummaryOf(r.complexity),
     orphan |-> SummaryOf(r.orphan),
     patterns |->
        IF "anti_patterns" \in DOMAIN r.patterns
        THEN [anti_patterns |-> r.patterns.anti_patterns,
              common_patterns |-> r.patterns.common_patterns,
              total_patterns |-> r.patterns.total_patterns,
              total_functions |-> r.patterns.total_functions,
              total_classes |-> r.patterns.total_classes]
        ELSE r.patterns]

\* the results of the same call on a newly constructed analyzer
FreshResults ==
    AnalyzeCodebase(NewAnalyzer(NETWORKX_AVAILABLE), files_data, analysis_types,
                    Available, "ok").results

\* C3: whatever was analysed before on the same analyzer, a call returns
\* the summary counts, anti-pattern findings and common-pattern list that
\* a new analyzer returns for the same file set.
C3_SameAsFreshAnalyzer ==
    invocations >= 1 => ReportOf(results) = ReportOf(FreshResults)

\* the capability an analysis kind needs is there
CapabilityAvailable(kind) ==
    IF kind = "complexity" THEN RADON_AVAILABLE
    ELSE IF kind = "orphan" THEN NETWORKX_AVAILABLE
    ELSE IF kind = "similarity" THEN TRANSFORMERS_AVAILABLE
    ELSE TRUE

\* C4: a requested kind whose capability is unavailable gets a record with
\* the keys error and message, and every other requested kind is still
\* computed and returned.
C4_UnavailableIsStructuredError ==
    \A kind \in AnalysisKinds :
        Requested(kind) =>
            IF CapabilityAvailable(kind)
            THEN results[kind] # NoResult
            ELSE IsErrorRecord(results[kind])

\* C5: with the graph backend available, total_definitions of an orphan
\* result is the number of function and class definitions in the parseable
\* files of the file set.
C5_NodeCountIsDefinitionCount ==
    OrphanAnalysed =>
        results.orphan.summary.total_definitions = DefinitionCount(files_data)

\* C6: a call whose file set holds an unparseable file gives the orphan
\* and pattern results, and leaves the definitions, names, graph and
\* patterns, that the same call gives without the unparseable files; the
\* pattern result is no error, and the orphan result is one only without
\* the graph backend.
C6_UnparseableFileSkipped ==
    [][(invocations' = invocations + 1
        /\ \E k \in 1..Len(files_data') : ~files_data'[k].parseable)
       => \E without \in {AnalyzeCodebase(Self, ParseableFiles(files_data'),
                                          analysis_types', Available, "ok")} :
            /\ results'.orphan = without.results.orphan
            /\ results'.patterns = without.results.patterns
            /\ definitions' = without.self.definitions
            /\ all_names' = without.self.all_names
            /\ graph' = without.self.graph
            /\ all_patterns' = without.self.all_patterns
            /\ ~IsErrorRecord(results'.patterns)
            /\ (IsErrorRecord(results'.orphan) => ~NETWORKX_AVAILABLE)]_vars

\* an analysis of A, an unparseable file and C has returned; the file
\* after the unparseable one is in the registry and among the patterns
C6_Witness ==
    /\ invocations >= 1
    /\ files_data = <<FileA, FileBad, FileC>>
    /\ {"orphan", "patterns"} \subseteq analysis_types
    /\ NETWORKX_AVAILABLE
    /\ "C.py::baz" \in DefinitionKeys(definitions)
    /\ ~IsErrorRecord(results.orphan)
    /\ \E i \in 1..Len(all_patterns) : all_patterns[i].file = "C.py"
    /\ results.patterns.total_functions >= 2

\* C7: for a file set with zero files the complexity, orphan and pattern
\* results have empty lists and counts, averages and percentages of 0,
\* and none is an error when its capability is available.
C7_ZeroFiles ==
    (invocations >= 1 /\ files_data = <<>>)
    => /\ (Requested("complexity") /\ RADON_AVAILABLE)
            => /\ results.complexity.function_metrics = <<>>
               /\ DOMAIN results.complexity.module_metrics = {}
               /\ results.complexity.summary =
                    [avg_complexity |-> 0, complex_functions |-> 0,
                     total_functions |-> 0, total_modules |-> 0]
       /\ (Requested("orphan") /\ NETWORKX_AVAILABLE)
            => /\ results.orphan.orphan_functions = <<>>
               /\ results.orphan.orphan_classes = <<>>
               /\ results.orphan.entry_points = <<>>
               /\ results.orphan.summary =
                    [total_definitions |-> 0, total_orphans |-> 0,
                     orphan_percentage |-> 0]
       /\ Requested("patterns")
            => /\ results.patterns.common_patterns = <<>>
               /\ results.patterns.anti_patterns = <<>>
               /\ results.patterns.rare_patterns = 0
               /\ results.patterns.total_patterns = 0
               /\ results.patterns.total_functions = 0
               /\ results.patterns.total_classes = 0
               /\ results.patterns.class_stats.avg_methods.num = 0
               /\ results.patterns.class_stats.with_init = 0

\* the HIGH_COMPLEXITY findings of the mined function
HighComplexityFindings ==
    SelectSeq(verdict.anti_patterns, LAMBDA f : f.type = "HIGH_COMPLEXITY")

ReportedPatterns ==
    {verdict.common_patterns[i].pattern : i \in 1..Len(verdict.common_patterns)}

\* C9: the sequence of a function is a candidate, and is reported in
\* common_patterns, exactly if it is longer than 1, its count is at least
\* 0.5% of the functions and it is none of (RETURN), (CONDITIONAL), () and
\* (CALL:super); a function without constructs and named calls has the
\* empty sequence and is not reported.
C9_MeaningfulFilter ==
    verdict.mined =>
        LET pattern == verdict.patterns[1].pattern
            qualifies == /\ Len(pattern) > 1
                         /\ 200 * sample.count >= sample.total
                         /\ pattern \notin {<<"RETURN">>, <<"CONDITIONAL">>, <<>>,
                                            <<"CALL:super">>}
        IN /\ verdict.meaningful <=> qualifies
           /\ pattern \in ReportedPatterns <=> qualifies
           /\ (sample.ifs + sample.tries + sample.fors = 0 /\ ~sample.returns
               /\ sample.call \in {"none", "attr", "attr_download"})
                => (pattern = <<>> /\ pattern \notin ReportedPatterns)

\* a sequence of two tokens at exactly 0.5% of the functions is reported
C9_Witness ==
    /\ verdict.mined
    /\ Len(verdict.patterns[1].pattern) = 2
    /\ sample.count = MaxCount
    /\ 200 * sample.count = sample.total
    /\ verdict.meaningful
    /\ verdict.patterns[1].pattern \in ReportedPatterns

\* the registered definitions of a type that nothing calls and that are
\* not special, in the order of their discovery
QualifyingOrphans(type) ==
    SelectSeq(definitions, LAMBDA d :
        /\ d.type = type
        /\ InDegree(graph, d.full_name) = 0
        /\ ~IsSpecial(d.name))

\* the registered definitions that call something and that nothing calls
QualifyingEntryPoints ==
    SelectSeq(definitions, LAMBDA d :
        /\ OutDegree(graph, d.full_name) > 0
        /\ InDegree(graph, d.full_name) = 0)

NamesInOrder(infos) == [i \in 1..Len(infos) |-> infos[i].full_name]

\* C10: orphan_functions and orphan_classes hold at most 50 entries and
\* entry_points at most 20, and each is the first 50, or 20, of the
\* qualifying definitions in the order of their discovery.
C10_TruncatedPrefix ==
    OrphanAnalysed =>
        /\ Len(results.orphan.orphan_functions) <= OrphanLimit
        /\ Len(results.orphan.orphan_classes) <= OrphanLimit
        /\ Len(results.orphan.entry_points) <= EntryPointLimit
        /\ NamesInOrder(results.orphan.orphan_functions)
             = Take(NamesInOrder(QualifyingOrphans("function")), OrphanLimit)
        /\ NamesInOrder(results.orphan.orphan_classes)
             = Take(NamesInOrder(QualifyingOrphans("class")), OrphanLimit)
        /\ NamesInOrder(results.orphan.entry_points)
             = Take(NamesInOrder(QualifyingEntryPoints), EntryPointLimit)

\* the innermost function definition around node i, or 0 at module level
RECURSIVE EnclosingFunction(_, _)
EnclosingFunction(tree, i) ==
    LET parent == tree[i].parent
    IN IF parent = 0 THEN 0
       ELSE IF tree[parent].kind = "FunctionDef" THEN parent
       ELSE EnclosingFunction(tree, parent)

\* the registry as it is when the calls of the k-th file are resolved, on
\* an analyzer that has analysed nothing before
RegistryAtFile(k) ==
    SelectSeq(definitions, LAMBDA d :
        \E j \in 1..k : files_data[j].parseable /\ files_data[j].path = d.file)

\* the edges the call sites of the file set call for: one per call inside
\* a function body whose identifier is registered, from the innermost
\* enclosing function to the first definition of that name
ExpectedEdges ==
    UNION {
        LET tree == files_data[k].tree
            sites == {i \in 1..Len(tree) :
                        /\ tree[i].kind = "Call"
                        /\ EnclosingFunction(tree, i) # 0
                        /\ CalledName(tree[i]) # None
                        /\ \E n \in 1..Len(RegistryAtFile(k)) :
                              RegistryAtFile(k)[n].name = CalledName(tree[i])}
        IN {<<FullName(files_data[k].path, tree[EnclosingFunction(tree, i)].name),
              LET reg == RegistryAtFile(k)
                  first == CHOOSE n \in 1..Len(reg) :
                              /\ reg[n].name = CalledName(tree[i])
                              /\ \A m \in 1..(n - 1) : reg[m].name # CalledName(tree[i])
              IN reg[first].full_name>> : i \in sites}
        : k \in {j \in 1..Len(files_data) : files_data[j].parseable}}

ExpectedInDegree(full_name) == Cardinality({e \in ExpectedEdges : e[2] = full_name})

ExpectedOutDegree(full_name) == Cardinality({e \in ExpectedEdges : e[1] = full_name})

\* the first orphan analysis of an analyzer has returned
FirstOrphanAnalysis == OrphanAnalysed /\ invocations = 1

\* the registered definitions the orphan rule qualifies: nothing calls
\* them, and their name neither starts with __ nor is main
ExpectedOrphans ==
    {d \in {definitions[i] : i \in 1..Len(definitions)} :
        /\ ExpectedInDegree(d.full_name) = 0
        /\ ~(StartsWith(d.name, "__") \/ d.name = "main")}

\* C11: a node of the call graph is counted as an orphan exactly if its
\* in-degree is 0 and its name neither starts with __ nor is main; the
\* orphans of kind function are in orphan_functions, those of kind class
\* in orphan_classes, and total_orphans is the number of all of them.
C11_OrphanRule ==
    FirstOrphanAnalysis =>
        /\ FullNames(results.orphan.orphan_functions)
             = {d.full_name : d \in {e \in ExpectedOrphans : e.type = "function"}}
        /\ FullNames(results.orphan.orphan_classes)
             = {d.full_name : d \in {e \in ExpectedOrphans : e.type = "class"}}
        /\ results.orphan.summary.total_orphans = Cardinality(ExpectedOrphans)

\* C12: a node of the call graph is reported as an entry point exactly if
\* its in-degree is 0 and its out-degree is greater than 0, whether or not
\* it is an orphan as well.
C12_EntryPointRule ==
    FirstOrphanAnalysis =>
        FullNames(results.orphan.entry_points)
          = {definitions[i].full_name : i \in
                {j \in 1..Len(definitions) :
                    /\ ExpectedInDegree(definitions[j].full_name) = 0
                    /\ ExpectedOutDegree(definitions[j].full_name) > 0}}

\* C13: for every call inside a function body whose identifier, a plain
\* name or the last name of an attribute access, is in the name set, the
\* graph holds exactly one edge, from the innermost enclosing function to
\* the first definition of that name in registry order, and no edge to a
\* further definition of that name.
C13_FirstMatchEdge ==
    FirstOrphanAnalysis => graph.edges = ExpectedEdges

\* the call sites of a file that are outside every function body
ModuleLevelCalls(file) ==
    {i \in 1..Len(file.tree) :
        file.tree[i].kind = "Call" /\ EnclosingFunction(file.tree, i) = 0}

\* some call of the file set, inside the function named by caller, names
\* the definition
CalledFrom(files, caller, definition) ==
    \E k \in 1..Len(files) :
        /\ files[k].parseable
        /\ \E i \in 1..Len(files[k].tree) :
              /\ files[k].tree[i].kind = "Call"
              /\ EnclosingFunction(files[k].tree, i) # 0
              /\ caller = FullName(files[k].path,
                                   files[k].tree[EnclosingFunction(files[k].tree, i)].name)
              /\ CalledName(files[k].tree[i]) = definition.name

\* C14: a call outside every function body adds no edge, and a call whose
\* identifier matches no registered definition adds no edge: every edge a
\* call of analyze_codebase_from_files adds starts at a function that
\* holds a call site and ends at a registered definition named there.
C14_NoEdgeWithoutFunctionOrMatch ==
    [][\A e \in graph'.edges \ graph.edges :
          \E n \in 1..Len(definitions') :
              /\ definitions'[n].full_name = e[2]
              /\ CalledFrom(files_data', e[1], definitions'[n])]_vars

\* an orphan analysis has returned for a file with a module-level call
\* to one of its functions, and nothing is recorded as calling it
C14_Witness ==
    /\ OrphanAnalysed
    /\ \E k \in 1..Len(files_data) :
          /\ files_data[k].parseable
          /\ \E i \in ModuleLevelCalls(files_data[k]) :
                /\ CalledName(files_data[k].tree[i]) \in all_names
                /\ ~\E e \in graph.edges :
                      e[2] = FullName(files_data[k].path, CalledName(files_data[k].tree[i]))

\* every node carries the kind, file, line and name of its registered
\* definition, and every edge joins two nodes
NodesAreDefinitions(st) ==
    /\ \A i \in 1..Len(st.graph.nodes) :
          /\ st.graph.nodes[i].type \in {"function", "class"}
          /\ \E n \in 1..Len(st.definitions) :
                st.definitions[n] =
                    DefinitionRecord(st.graph.nodes[i].full_name, st.graph.nodes[i].file,
                                     st.graph.nodes[i].line, st.graph.nodes[i].type,
                                     st.graph.nodes[i].name)
    /\ \A e \in st.graph.edges : {e[1], e[2]} \subseteq NodeNames(st.graph)

\* C15: after each file of an orphan analysis, both ends of every edge
\* are nodes registered as definitions, with kind, file, line and name;
\* no edge has introduced a node without them.
C15_EdgesJoinRegisteredNodes ==
    [][(invocations' = invocations + 1 /\ "orphan" \in analysis_types'
        /\ NETWORKX_AVAILABLE)
       => /\ \A k \in 0..Len(files_data') :
                \E built \in {BuildCallGraph(
                        [definitions |-> definitions, all_names |-> all_names,
                         graph |-> graph],
                        SubSeq(files_data', 1, k))} : NodesAreDefinitions(built)
          /\ NodesAreDefinitions([definitions |-> definitions', all_names |-> all_names',
                                  graph |-> graph'])]_vars

\* an orphan analysis has returned for a file set in which a function
\* calls a registered definition
C15_Witness ==
    /\ OrphanAnalysed
    /\ \E n \in 1..Len(definitions), m \in 1..Len(definitions) :
          /\ definitions[n].type = "function"
          /\ CalledFrom(files_data, definitions[n].full_name, definitions[m])
    /\ NodesAreDefinitions([definitions |-> definitions, all_names |-> all_names,
                            graph |-> graph])

\* the files of the set whose complexity computation raises
FailingFiles(files) ==
    {files[k].path : k \in {j \in 1..Len(files) :
        EndsWith(files[j].path, ".py") /\ ~files[j].parseable}}

\* C16: a file whose complexity computation raises has no entry in
\* function_metrics and none in module_metrics of the result, the summary
\* does not count it, and the other files of the set are analysed.
C16_FailedFileExcluded ==
    (Requested("complexity") /\ RADON_AVAILABLE) =>
        LET failing == FailingFiles(files_data)
            kept == SelectSeq(results.complexity.function_metrics,
                              LAMBDA f : f.file \notin failing)
        IN /\ \A i \in 1..Len(results.complexity.function_metrics) :
                 results.complexity.function_metrics[i].file \notin failing
           /\ DOMAIN results.complexity.module_metrics \cap failing = {}
           /\ results.complexity.summary.total_functions = Len(kept)
           /\ results.complexity.summary.total_modules =
                 Cardinality(DOMAIN results.complexity.module_metrics \ failing)
           /\ \A k \in 1..Len(files_data) :
                 (files_data[k].parseable /\ EndsWith(files_data[k].path, ".py"))
                    => files_data[k].path \in DOMAIN results.complexity.module_metrics

\* the number of ancestors of node i
RECURSIVE Depth(_, _)
Depth(tree, i) == IF tree[i].parent = 0 THEN 0 ELSE 1 + Depth(tree, tree[i].parent)

\* the subtree of root level by level: by depth, and in pre-order within
\* a depth
LevelOrder(tree, root) ==
    LET pre == DepthFirst(tree, <<root>>)
    IN SortSeq(pre, LAMBDA a, b :
            \/ Depth(tree, a) < Depth(tree, b)
            \/ Depth(tree, a) = Depth(tree, b) /\ PositionIn(pre, a) < PositionIn(pre, b))

\* C17 as stated: the token sequence of a function lists its constructs
\* in the order of a pre-order walk of its subtree, a nested construct
\* right after its parent and before the parent's later siblings.
C17_PreOrderTokens ==
    verdict.mined =>
        verdict.patterns[1].pattern
          = TokensAlong(SampleTree(sample), DepthFirst(SampleTree(sample), <<1>>))

\* C17 amended: the token sequence of a function lists its constructs
\* level by level, as ast.walk yields the subtree: those at one depth in
\* source order, then those one level deeper; a nested construct comes
\* after every construct at the depth of its parent.
C17_LevelOrderTokens ==
    verdict.mined =>
        verdict.patterns[1].pattern
          = TokensAlong(SampleTree(sample), LevelOrder(SampleTree(sample), 1))

\* a function whose first if holds a while loop and that ends in a call
\* statement and a return: the tokens of the nested loop and of the call
\* come last, after the return's
C17_Witness ==
    /\ verdict.mined
    /\ sample.nest /\ sample.returns /\ sample.call = "name"
    /\ LET pattern == verdict.patterns[1].pattern
       IN /\ pattern[1] = "CONDITIONAL"
          /\ pattern[Len(pattern)] = "CALL:helper"
          /\ pattern[Len(pattern) - 1] = "WHILE_LOOP"
          /\ pattern[Len(pattern) - 2] = "RETURN"

\* the fields of the analyzer that an analysis kind owns
FieldsOf(self, kind) ==
    IF kind = "complexity"
    THEN [function_metrics |-> self.function_metrics, module_metrics |-> self.module_metrics]
    ELSE IF kind = "orphan"
    THEN [definitions |-> self.definitions, all_names |-> self.all_names,
          graph |-> self.graph]
    ELSE IF kind = "patterns" THEN [all_patterns |-> self.all_patterns]
    ELSE [none |-> TRUE]

\* the analyzer after the step
SelfAfter ==
    [function_metrics |-> function_metrics',
     module_metrics |-> module_metrics',
     definitions |-> definitions',
     all_names |-> all_names',
     graph |-> graph',
     all_patterns |-> all_patterns',
     files_data |-> files_data']

\* C18: a call of analyze_codebase_from_files leaves the fields of every
\* kind it does not run as they were, and gives each kind it runs the
\* result and the fields that running this kind alone on the same
\* analyzer gives, whichever other kinds run with it or ran before.
C18_AnalysesIndependent ==
    [][invocations' = invocations + 1 =>
        \A kind \in AnalysisKinds :
            IF kind \in analysis_types'
            THEN \E alone \in {AnalyzeCodebase(Self, files_data', {kind}, Available, "ok")} :
                    /\ FieldsOf(SelfAfter, kind) = FieldsOf(alone.self, kind)
                    /\ kind # "similarity" => results'[kind] = alone.results[kind]
                    /\ \A other \in AnalysisKinds \ {kind} :
                          FieldsOf(alone.self, other) = FieldsOf(Self, other)
            ELSE /\ FieldsOf(SelfAfter, kind) = FieldsOf(Self, kind)
                 /\ results'[kind] = NoResult]_vars

\* all kinds have run on an analyzer that held metrics, definitions and
\* patterns of an earlier call, and each has added its own
C18_Witness ==
    /\ invocations = 2
    /\ analysis_types = AnalysisKinds
    /\ RADON_AVAILABLE /\ NETWORKX_AVAILABLE
    /\ files_data = <<FileD, FileM>>
    /\ \E i \in 1..Len(function_metrics) : function_metrics[i].file = "A.py"
    /\ \E i \in 1..Len(function_metrics) : function_metrics[i].file = "M.py"
    /\ {"A.py::foo", "M.py::main"} \subseteq DefinitionKeys(definitions)
    /\ \E i \in 1..Len(all_patterns) : all_patterns[i].file = "A.py"
    /\ \E i \in 1..Len(all_patterns) : all_patterns[i].file = "M.py"

\* the names called by the CALL tokens of a sequence
CalledNames(pattern) ==
    {SubSeq(pattern[i], 6, Len(pattern[i])) :
        i \in {j \in 1..Len(pattern) : StartsWith(pattern[j], "CALL:")}}

\* the name holds the word, as written or with the name in lower case
Holds(name, word, any_case) ==
    IF any_case THEN Contains(Lower(name), word) ELSE Contains(name, word)

\* the label of the fixed order of rules
LabelBy(pattern, any_case) ==
    IF \E name \in CalledNames(pattern) : Holds(name, "download", any_case)
    THEN "Web Scraping"
    ELSE IF \E name \in CalledNames(pattern) : Holds(name, "regex", any_case)
    THEN "Regex Extraction"
    ELSE IF Count(pattern, "TRY_EXCEPT") >= 2 THEN "Defensive Programming"
    ELSE IF Count(pattern, "CONDITIONAL") > 10 THEN "High Complexity"
    ELSE IF Count(pattern, "FOR_LOOP") + Count(pattern, "WHILE_LOOP") > 3
    THEN "Loop-Heavy Processing"
    ELSE "Standard Logic"

\* C19 as stated: the label is the first of: a CALL token whose name
\* contains download, Web Scraping; one whose name contains regex, Regex
\* Extraction; at least 2 TRY_EXCEPT, Defensive Programming; more than 10
\* CONDITIONAL, High Complexity; more than 3 loop tokens, Loop-Heavy
\* Processing; else Standard Logic.
C19_ClassificationAsWritten ==
    verdict.mined =>
        verdict.classification = LabelBy(verdict.patterns[1].pattern, FALSE)

\* C19 amended: the same order of rules, with the names compared in
\* lower case, so that a call of Download or findRegex matches as well;
\* every sequence gets exactly one of the six labels.
C19_ClassificationInAnyCase ==
    verdict.mined =>
        /\ verdict.classification = LabelBy(verdict.patterns[1].pattern, TRUE)
        /\ verdict.classification \in
              {"Web Scraping", "Regex Extraction", "Defensive Programming",
               "High Complexity", "Loop-Heavy Processing", "Standard Logic"}

\* a function that calls Download, with two try statements, 11 if
\* statements and 4 loops, is labelled by its call
C19_Witness ==
    /\ verdict.mined
    /\ sample.call = "Download"
    /\ sample.tries = 2 /\ sample.ifs = 11 /\ sample.fors = 4
    /\ verdict.classification = "Web Scraping"

\* the MISSING_RETURN findings of the mined function
MissingReturnFindings ==
    SelectSeq(verdict.anti_patterns, LAMBDA f : f.type = "MISSING_RETURN")

\* C20: a function has a MISSING_RETURN finding, one and of severity LOW,
\* exactly if its token sequence has no RETURN token and no CALL: token;
\* a function without return whose body holds a call of a plain name has
\* none.
C20_MissingReturn ==
    verdict.mined =>
        LET pattern == verdict.patterns[1].pattern
        IN /\ IF /\ \A i \in 1..Len(pattern) : pattern[i] # "RETURN"
                 /\ CalledNames(pattern) = {}
              THEN /\ Len(MissingReturnFindings) = 1
                   /\ MissingReturnFindings[1].severity = "LOW"
                   /\ MissingReturnFindings[1].function = "f"
              ELSE MissingReturnFindings = <<>>
           /\ (~sample.returns /\ sample.call \in {"name", "super", "download", "Download",
                                                  "regex", "both"})
                => MissingReturnFindings = <<>>
           /\ (~sample.returns /\ sample.call \in {"none", "attr", "attr_download"})
                => Len(MissingReturnFindings) = 1

\* a function without return that calls helper() has no finding
C20_Witness ==
    /\ verdict.mined
    /\ ~sample.returns
    /\ sample.call = "name"
    /\ sample.ifs = 1
    /\ verdict.patterns[1].pattern = <<"CONDITIONAL", "CALL:helper">>
    /\ MissingReturnFindings = <<>>

\* the NESTED_LOOPS findings of the mined function
NestedLoopsFindings ==
    SelectSeq(verdict.anti_patterns, LAMBDA f : f.type = "NESTED_LOOPS")

\* the loop statements written in the sampled function
SampleLoops ==
    sample.fors + (IF sample.nest THEN 1 ELSE 0) + (IF sample.inner THEN 1 ELSE 0)

\* C21: a function has a NESTED_LOOPS finding, one and of severity MEDIUM,
\* exactly if its sequence holds more than 2 FOR_LOOP and WHILE_LOOP tokens
\* together, whatever the nesting: three loops side by side have it, a
\* loop inside a loop has not. The three rules are tried one after the
\* other, each on its own condition, so the findings of a function are
\* those of HIGH_COMPLEXITY, MISSING_RETURN and NESTED_LOOPS in this order,
\* each present or absent.
C21_NestedLoops ==
    verdict.mined =>
        LET pattern == verdict.patterns[1].pattern
            loops == Count(pattern, "FOR_LOOP") + Count(pattern, "WHILE_LOOP")
        IN /\ loops = SampleLoops
           /\ IF loops > 2
              THEN /\ Len(NestedLoopsFindings) = 1
                   /\ NestedLoopsFindings[1].severity = "MEDIUM"
                   /\ NestedLoopsFindings[1].function = "f"
              ELSE NestedLoopsFindings = <<>>
           /\ (sample.fors = 3 /\ ~sample.nest /\ ~sample.inner)
                => Len(NestedLoopsFindings) = 1
           /\ (sample.fors = 1 /\ sample.inner /\ ~sample.nest)
                => NestedLoopsFindings = <<>>
           /\ [i \in DOMAIN verdict.anti_patterns |-> verdict.anti_patterns[i].type]
                = (IF Count(pattern, "CONDITIONAL") > 5
                   THEN <<"HIGH_COMPLEXITY">> ELSE <<>>)
                  \o (IF /\ \A i \in 1..Len(pattern) : pattern[i] # "RETURN"
                         /\ CalledNames(pattern) = {}
                      THEN <<"MISSING_RETURN">> ELSE <<>>)
                  \o (IF loops > 2 THEN <<"NESTED_LOOPS">> ELSE <<>>)

\* a function of 6 if statements and three for loops side by side, with no
\* return and no call, has all three findings
C21_Witness ==
    /\ verdict.mined
    /\ sample.fors = 3 /\ ~sample.nest /\ ~sample.inner
    /\ sample.ifs = 6 /\ ~sample.returns /\ sample.call = "none"
    /\ Len(verdict.anti_patterns) = 3
    /\ Len(NestedLoopsFindings) = 1

\* the attribute-based call sites inside the function bodies of the k-th
\* file whose last name is registered when the file's calls are resolved
AttributeSites(k) ==
    {i \in 1..Len(files_data[k].tree) :
        /\ files_data[k].tree[i].kind = "Call"
        /\ files_data[k].tree[i].fn = "Attribute"
        /\ EnclosingFunction(files_data[k].tree, i) # 0
        /\ \E n \in 1..Len(RegistryAtFile(k)) :
              RegistryAtFile(k)[n].name = files_data[k].tree[i].name}

\* the edge the call site i of the k-th file calls for
EdgeOfSite(k, i) ==
    LET tree == files_data[k].tree
        reg == RegistryAtFile(k)
        first == CHOOSE n \in 1..Len(reg) :
                    /\ reg[n].name = tree[i].name
                    /\ \A m \in 1..(n - 1) : reg[m].name # tree[i].name
    IN <<FullName(files_data[k].path, tree[EnclosingFunction(tree, i)].name),
         reg[first].full_name>>

\* the calls of a plain name in the subtree of node i, by their names
PlainCallsIn(tree, i) ==
    LET nodes == Subtree(tree, i)
    IN {tree[nodes[n]].name :
          n \in {m \in 1..Len(nodes) :
                    tree[nodes[m]].kind = "Call" /\ tree[nodes[m]].fn = "Name"}}

\* C22: the token sequence of a function holds a CALL:<name> token for
\* every call of a plain name in it and none for an attribute-based call,
\* while the call graph holds the edge of an attribute-based call whose
\* last name is registered: a function whose only call is obj.method()
\* has the edge to method and no CALL token.
C22_AttributeCallHasEdgeAndNoToken ==
    (FirstOrphanAnalysis /\ Requested("patterns")) =>
        \A k \in {j \in 1..Len(files_data) : files_data[j].parseable} :
            /\ \A i \in FunctionNodes(files_data[k]) :
                  \E n \in 1..Len(all_patterns) :
                      /\ all_patterns[n].type = "function_structure"
                      /\ all_patterns[n].file = files_data[k].path
                      /\ all_patterns[n].line = files_data[k].tree[i].lineno
                      /\ CalledNames(all_patterns[n].pattern)
                            = PlainCallsIn(files_data[k].tree, i)
            /\ \A i \in AttributeSites(k) : EdgeOfSite(k, i) \in graph.edges

\* the token sequences of the functions the analyzer holds, in the order
\* of their extraction
SequencesHeld ==
    LET func_patterns == SelectSeq(all_patterns, LAMBDA p : p.type = "function_structure")
    IN [n \in DOMAIN func_patterns |-> func_patterns[n].pattern]

Occurrences(pattern) == Count(SequencesHeld, pattern)

FirstSeen(pattern) ==
    CHOOSE n \in 1..Len(SequencesHeld) :
        /\ SequencesHeld[n] = pattern
        /\ \A m \in 1..(n - 1) : SequencesHeld[m] # pattern

\* the distinct sequences that pass the filter
MeaningfulSequences ==
    {pattern \in {SequencesHeld[n] : n \in 1..Len(SequencesHeld)} :
        IsMeaningfulPattern(pattern, Occurrences(pattern), Len(SequencesHeld))}

\* C23: common_patterns holds meaningful sequences with their counts, in
\* descending order of count, at most 20 and all of them if they are no
\* more than 20; no meaningful sequence left out has a higher count than
\* a listed one, and among sequences of equal count the one seen first
\* comes first, in the list and in what is left out.
C23_CommonPatternsRanked ==
    Requested("patterns") =>
        LET common == results.patterns.common_patterns
            listed == {common[i].pattern : i \in 1..Len(common)}
        IN /\ Len(common) = Min(TopPatternLimit, Cardinality(MeaningfulSequences))
           /\ listed \subseteq MeaningfulSequences
           /\ Cardinality(listed) = Len(common)
           /\ \A i \in 1..Len(common) :
                 /\ common[i].count = Occurrences(common[i].pattern)
                 /\ \A j \in (i + 1)..Len(common) :
                       /\ common[i].count >= common[j].count
                       /\ common[i].count = common[j].count
                            => FirstSeen(common[i].pattern) < FirstSeen(common[j].pattern)
                 /\ \A pattern \in MeaningfulSequences \ listed :
                       /\ Occurrences(pattern) <= common[i].count
                       /\ Occurrences(pattern) = common[i].count
                            => FirstSeen(common[i].pattern) < FirstSeen(pattern)

\* 22 meaningful sequences of three different counts: 20 are listed, the
\* first-seen sequence is not at the head of the list, and two sequences
\* of the lowest count are left out
C23_Witness ==
    /\ Requested("patterns")
    /\ Cardinality(MeaningfulSequences) = DistinctBodies
    /\ Len(results.patterns.common_patterns) = TopPatternLimit
    /\ results.patterns.common_patterns[1].count
          > results.patterns.common_patterns[TopPatternLimit].count
    /\ FirstSeen(results.patterns.common_patterns[1].pattern) > 1
    /\ \E pattern \in MeaningfulSequences :
          /\ \A i \in 1..TopPatternLimit :
                results.patterns.common_patterns[i].pattern # pattern
          /\ Occurrences(pattern)
                = results.patterns.common_patterns[TopPatternLimit].count

\* the functions of the parseable files handed in whose source text,
\* stripped, has at least the given number of characters, by full name
FunctionsOfLength(least) ==
    UNION {{FullName(files_data[k].path, files_data[k].tree[i].name) :
               i \in {j \in FunctionNodes(files_data[k]) :
                         files_data[k].tree[j].chars >= least}} :
           k \in {j \in 1..Len(files_data) : files_data[j].parseable}}

\* the similarity result is an error of loading, or it counts the
\* functions of at least the given length, refusing fewer than 2
EmbedsFunctionsOfLength(least) ==
    LET n == Cardinality(FunctionsOfLength(least))
    IN IF IsErrorRecord(results.similarity)
       THEN \/ results.similarity.error # "Not enough functions found"
            \/ n < 2
       ELSE n >= 2 /\ results.similarity.total_functions = n

\* C24 as stated: the similarity analysis embeds every function whose
\* source text has at least 20 characters; one of exactly 20 characters
\* is embedded, one of 19 is not.
C24_EmbedsFromTwentyChars ==
    (Requested("similarity") /\ TRANSFORMERS_AVAILABLE) => EmbedsFunctionsOfLength(20)

\* C24 amended: the similarity analysis embeds every function whose
\* source text has more than 20 characters; one of 21 characters is
\* embedded, one of exactly 20 is not.
C24_EmbedsAboveTwentyChars ==
    (Requested("similarity") /\ TRANSFORMERS_AVAILABLE) => EmbedsFunctionsOfLength(21)

\* a similarity analysis has returned its count for files that hold a
\* function of exactly 20 characters, and the count leaves it out
C24_Witness ==
    /\ Requested("similarity")
    /\ TRANSFORMERS_AVAILABLE
    /\ ~IsErrorRecord(results.similarity)
    /\ \E k \in 1..Len(files_data) :
          /\ files_data[k].parseable
          /\ \E i \in FunctionNodes(files_data[k]) :
                files_data[k].tree[i].chars = MinFunctionChars
    /\ results.similarity.total_functions = Cardinality(FunctionsOfLength(20)) - 1

\* the text of the console messages on the queue, in the order of their
\* putting
ConsoleLines ==
    LET console == SelectSeq(message_queue.items, LAMBDA msg : msg.type = "console")
    IN [n \in DOMAIN console |-> console[n].message]

\* the lines of the written text that a newline has terminated
TerminatedLines ==
    LET lines == SplitLines(written)
    IN SubSeq(lines, 1, Len(lines) - 1)

\* C28: after any sequence of write calls the queue holds one console
\* message for every non-blank line of the written text that a newline
\* has terminated, in write order and with the line's text, however the
\* text was split across the calls; the text after the last newline, and
\* nothing else, is buffered (blank text at its ends set aside).
C28_EveryTerminatedLineEnqueued ==
    console_capture.writes >= 1 =>
        LET kept == SelectSeq(TerminatedLines, LAMBDA line : ~IsBlank(line))
            lines == SplitLines(written)
        IN /\ ConsoleLines = [n \in DOMAIN kept |-> Strip(kept[n])]
           /\ Strip(console_capture.buffer) = Strip(lines[Len(lines)])

\* the generation thread of run r has put its complete message
PastComplete(r) == generation_thread[r].pc \in {"finally", "done"}

\* the number of complete messages among the messages
Completes(messages) == Len(SelectSeq(messages, LAMBDA msg : msg.type = "complete"))

\* a step of the generation thread of run r puts no complete message
\* before the end of its path, puts one as its last message at the end,
\* with the success flag of the path, and puts nothing afterwards
OneCompleteAtTheEnd(r) ==
    generation_thread'[r] # generation_thread[r] =>
        /\ PastComplete(r) => message_queue'.items = message_queue.items
        /\ (~PastComplete(r) /\ PastComplete(r)') =>
              /\ Completes(message_queue'.items) = Completes(message_queue.items) + 1
              /\ message_queue'.items[Len(message_queue'.items)]
                    = [type |-> "complete",
                       success |-> generation_thread'[r].outcome = "success"]
        /\ ~PastComplete(r)' =>
              Completes(message_queue'.items) = Completes(message_queue.items)

\* the run r of app_new.py has been started and the session shows it as
\* running
RunStarted(r) ==
    /\ program = "app_new.py"
    /\ Len(generation_thread) = r
    /\ session_state.tutorial_running

\* the run r of app_new.py has ended and the session shows it: not
\* running, and complete exactly if the run succeeded
RunShown(r) ==
    /\ program = "app_new.py"
    /\ Len(generation_thread) = r
    /\ generation_thread[r].pc = "done"
    /\ ~session_state.tutorial_running
    /\ session_state.tutorial_complete = (generation_thread[r].outcome = "success")

\* C25: every generation thread, of app.py and of app_new.py, puts exactly
\* one complete message, on the success path and on the exception paths,
\* as the last message it puts; and with the script of app_new.py run
\* again and again while tutorial_running is true, every started run
\* leads to tutorial_running false and tutorial_complete equal to the
\* success flag of the run.
C25_OneCompleteAndRunEnds ==
    /\ [][\A r \in DOMAIN generation_thread : OneCompleteAtTheEnd(r)]_vars
    /\ \A r \in 1..MaxRuns : RunStarted(r) ~> RunShown(r)

\* in app_new.py a first run has failed and a second has succeeded, each
\* with its one complete message, and the session shows the success
C25_Witness ==
    /\ RunShown(2)
    /\ generation_thread[1].outcome = "failure"
    /\ generation_thread[2].outcome = "success"
    /\ Completes(message_queue.items) = 2
    /\ session_state.tutorial_complete

\* the script takes a complete message of a failed run from the queue
FailureTaken ==
    \E i \in (message_queue.taken + 1)..(message_queue'.taken) :
        message_queue.items[i] = [type |-> "complete", success |-> FALSE]

\* C26: in app.py, the run of the script that processes the complete
\* message of a failed run leaves the error message set and starts no
\* generation thread, and the error message is cleared by Try Again only
\* (which leads back to the configuration page).
C26_NoThreadAfterFailure ==
    [][program = "app.py" =>
          /\ FailureTaken =>
                /\ session_state'.error_message # None
                /\ Len(generation_thread') = Len(generation_thread)
          /\ (session_state.error_message # None /\ session_state'.error_message = None)
                => session_state'.page = "configure"]_vars

\* C27: in app.py, once the generation thread of a run has put its
\* complete message, the monitor thread of the run puts no message
\* any more, on the success path and on the failure path.
C27_MonitorSilentAfterComplete ==
    [][\A r \in DOMAIN monitor_thread :
          (program = "app.py" /\ PastComplete(r)
              /\ monitor_thread'[r] # monitor_thread[r])
            => message_queue'.items = message_queue.items]_vars

\* what a CallVisitor holds after visiting the k-th file handed in, on
\* the analyzer as it is
VisitorAfterFile(k) ==
    VisitCalls(NewCallVisitor(graph), Self, files_data[k].path, files_data[k].tree,
               Children(files_data[k].tree, 0))

\* the call expressions of a tree in the order NodeVisitor reaches them
CallsInOrder(tree) ==
    SelectSeq(DepthFirst(tree, Children(tree, 0)), LAMBDA i : tree[i].kind = "Call")

\* the full name of the innermost function definition around node i, or
\* None outside every function
InnermostFunction(file, i) ==
    IF EnclosingFunction(file.tree, i) = 0 THEN None
    ELSE FullName(file.path, file.tree[EnclosingFunction(file.tree, i)].name)

\* C29: while the calls of a file are extracted, every call expression is
\* reached with current_function naming the innermost function definition
\* around it, or None outside every function: after a nested definition
\* the marker is that of the outer function again, and after the whole
\* file it is None.
C29_MarkerIsInnermostFunction ==
    \A k \in {j \in 1..Len(files_data) : files_data[j].parseable} :
        LET file == files_data[k]
            visitor == VisitorAfterFile(k)
            calls == CallsInOrder(file.tree)
        IN /\ visitor.current_function = None
           /\ Len(visitor.calls) = Len(calls)
           /\ \A n \in 1..Len(calls) :
                 /\ visitor.calls[n].node = calls[n]
                 /\ visitor.calls[n].current_function = InnermostFunction(file, calls[n])

\* N.py has been analysed: the call in inner is reached with the marker
\* at inner, the call after inner with the marker at outer, and the call
\* at module level with the marker None
C29_Witness ==
    /\ invocations >= 1
    /\ files_data = <<FileNested>>
    /\ VisitorAfterFile(1).calls =
          <<[node |-> 4, current_function |-> "N.py::inner"],
            [node |-> 6, current_function |-> "N.py::outer"],
            [node |-> 9, current_function |-> None]>>
    /\ VisitorAfterFile(1).current_function = None

\* pattern_counts of the last call: the distinct token sequences of the
\* functions held, each with its count
CountsHeld == CountPatterns(SequencesHeld)

\* C30: in every pattern result, on an analyzer used any number of times,
\* total_patterns is total_functions plus total_classes, the counts of the
\* distinct token sequences add up to total_functions, every common
\* pattern has a count from 1 to total_functions, rare_patterns is no more
\* than the number of distinct sequences, and with_init is no more than
\* total_classes.
C30_PatternTotalsAgree ==
    Requested("patterns") =>
        LET report == results.patterns
        IN /\ report.total_patterns = report.total_functions + report.total_classes
           /\ report.total_patterns = Len(all_patterns)
           /\ SumSeq([k \in DOMAIN CountsHeld |-> CountsHeld[k].count])
                 = report.total_functions
           /\ \A k \in DOMAIN CountsHeld :
                 CountsHeld[k].count = Occurrences(CountsHeld[k].pattern)
           /\ \A i \in DOMAIN report.common_patterns :
                 /\ report.common_patterns[i].count >= 1
                 /\ report.common_patterns[i].count <= report.total_functions
           /\ report.rare_patterns <= Len(CountsHeld)
           /\ report.class_stats.with_init <= report.total_classes

\* the second call on one analyzer returned a pattern result that has
\* functions and classes, a class with __init__, a sequence counted more
\* than once and a common pattern
C30_Witness ==
    /\ Requested("patterns")
    /\ invocations >= 2
    /\ results.patterns.total_functions >= 2
    /\ results.patterns.total_classes >= 2
    /\ results.patterns.class_stats.with_init >= 1
    /\ results.patterns.common_patterns # <<>>
    /\ \E k \in DOMAIN CountsHeld : CountsHeld[k].count >= 2
    /\ Len(CountsHeld) >= 2

====
